---- MODULE Spec2Model ----
(***************************************************************************)
(* RSA key generation and encryption/decryption engine of rsa_cipher.py:   *)
(* Miller-Rabin primality oracle, prime generator, extended Euclid,        *)
(* modular inverse, exponent selector, keypair factory, transcoder and     *)
(* cipher engine.  One call of one entry point is executed per behaviour:  *)
(* Init draws the entry point and its arguments, the actions run the code. *)
(***************************************************************************)
EXTENDS Integers, Sequences, FiniteSets, TLC

VARIABLES
    op,     \* the entry point that was called
    pc,     \* position in the code
    arg,    \* the arguments of the call
    stack,  \* return positions of the calls in progress
    kp,     \* locals of generate_keypair
    gp,     \* locals of generate_prime
    pp,     \* locals of is_probable_prime
    cc,     \* locals of choose_random_coprime
    sc,     \* locals of the calling script
    result, \* the value returned last, under the name of its function
    err     \* the exception raised, "none" when there is none

vars == <<op, pc, arg, stack, kp, gp, pp, cc, sc, result, err>>

\* the value returned by the call that returned last, "none" before
ret == result[CHOOSE f \in DOMAIN result : TRUE]

(***************************************************************************)
(* Python integers                                                         *)
(***************************************************************************)
(* Python integers are unbounded.  Values that can exceed the 32-bit
   integers of TLC (the modulus n, the totient phi, the exponents e and d,
   and the coefficients of egcd) are kept as sequences of limbs, least
   significant limb first, in base LimbBase; all limbs of a value carry its
   sign, the top limb is never 0, and zero is the empty sequence. *)
LimbBase == 32768

RECURSIVE MagOfInt(_)
MagOfInt(i) == IF i = 0 THEN <<>> ELSE <<i % LimbBase>> \o MagOfInt(i \div LimbBase)

Neg(a) == [j \in DOMAIN a |-> 0 - a[j]]

IsNeg(a) == a # <<>> /\ a[Len(a)] < 0

Abs(a) == IF IsNeg(a) THEN Neg(a) ELSE a

Big(i) == IF i < 0 THEN Neg(MagOfInt(0 - i)) ELSE MagOfInt(i)

Fits(a) == Len(a) <= 2

RECURSIVE IntOf(_)
IntOf(a) == IF a = <<>> THEN 0 ELSE a[1] + LimbBase * IntOf(Tail(a))

RECURSIVE Trim(_)
Trim(a) == IF a # <<>> /\ a[Len(a)] = 0 THEN Trim(SubSeq(a, 1, Len(a) - 1)) ELSE a

RECURSIVE MagCmpFrom(_, _, _)
MagCmpFrom(a, b, j) ==
    IF j = 0 THEN 0
    ELSE IF a[j] < b[j] THEN -1
    ELSE IF a[j] > b[j] THEN 1
    ELSE MagCmpFrom(a, b, j - 1)

MagCmp(a, b) ==
    IF Len(a) < Len(b) THEN -1
    ELSE IF Len(a) > Len(b) THEN 1
    ELSE MagCmpFrom(a, b, Len(a))

RECURSIVE MagAddC(_, _, _)
MagAddC(a, b, c) ==
    IF a = <<>> /\ b = <<>> THEN (IF c = 0 THEN <<>> ELSE <<c>>)
    ELSE LET x == IF a = <<>> THEN 0 ELSE a[1]
             y == IF b = <<>> THEN 0 ELSE b[1]
             t == x + y + c
         IN <<t % LimbBase>> \o MagAddC(IF a = <<>> THEN a ELSE Tail(a),
                                         IF b = <<>> THEN b ELSE Tail(b),
                                         t \div LimbBase)

MagAdd(a, b) == MagAddC(a, b, 0)

RECURSIVE MagSubB(_, _, _)
MagSubB(a, b, c) ==
    IF a = <<>> THEN <<>>
    ELSE LET y == IF b = <<>> THEN 0 ELSE b[1]
             t == a[1] - y - c
         IN <<IF t < 0 THEN t + LimbBase ELSE t>>
            \o MagSubB(Tail(a), IF b = <<>> THEN b ELSE Tail(b), IF t < 0 THEN 1 ELSE 0)

MagSub(a, b) == Trim(MagSubB(a, b, 0))

RECURSIVE MagScaleC(_, _, _)
MagScaleC(a, k, c) ==
    IF a = <<>> THEN (IF c = 0 THEN <<>> ELSE <<c>>)
    ELSE LET t == a[1] * k + c
         IN <<t % LimbBase>> \o MagScaleC(Tail(a), k, t \div LimbBase)

\* a * b from a[1] * b and Tail(a) * b
MagMulStep(low, rest) ==
    CHOOSE y \in {MagAdd(x[1], IF x[2] = <<>> THEN x[2] ELSE <<0>> \o x[2]) :
                    x \in {<<low, rest>>}} : TRUE

RECURSIVE MagMul(_, _)
MagMul(a, b) ==
    IF a = <<>> \/ b = <<>> THEN <<>>
    ELSE MagMulStep(MagScaleC(b, a[1], 0), MagMul(Tail(a), b))

MagScale(a, k) == Trim(MagScaleC(a, k, 0))

\* <<quotient, remainder>> of a by the limb k > 0, limbs 1 .. j of a still
\* to come below the remainder rem of the limbs above them
MagShortPut(rest, digit) ==
    CHOOSE y \in {<<x[1] \o <<digit>>, x[2]>> : x \in {rest}} : TRUE

RECURSIVE MagShortFrom(_, _, _, _)
MagShortFrom(a, k, j, rem) ==
    IF j = 0 THEN <<(<<>>), rem>>
    ELSE MagShortPut(MagShortFrom(a, k, j - 1, (rem * LimbBase + a[j]) % k),
                     (rem * LimbBase + a[j]) \div k)

MagShortDiv(a, k) == Trim(MagShortFrom(a, k, Len(a), 0)[1])

\* the largest digit t <= guess with t * b <= r
RECURSIVE MagDigitFix(_, _, _)
MagDigitFix(r, b, guess) ==
    IF \E y \in {MagScale(b, guess)} : MagCmp(y, r) <= 0 THEN guess
    ELSE MagDigitFix(r, b, guess - 1)

\* the digit r \div b for r < b * LimbBase, guessed from the top limbs; the
\* top limb of b is at least LimbBase \div 2
MagDigit(r, b) ==
    LET n == Len(b)
        top == IF Len(r) > n THEN r[n + 1] ELSE 0
        next == IF Len(r) >= n THEN r[n] ELSE 0
        guess == (top * LimbBase + next) \div b[n]
    IN CHOOSE t \in {MagDigitFix(r, b, IF g > LimbBase - 1 THEN LimbBase - 1 ELSE g) :
                       g \in {guess}} : TRUE

\* one more limb: r is the remainder so far with the limb put below it
MagLongPut(q, r, b, t) ==
    CHOOSE y \in {<<IF q = <<>> /\ t = 0 THEN q ELSE <<t>> \o q, MagSub(r, s)>> :
                    s \in {MagScale(b, t)}} : TRUE

MagLongStep(limb, b, h) ==
    CHOOSE y \in UNION {{MagLongPut(x[1], x[2], b, t) : t \in {MagDigit(x[2], b)}} :
                          x \in {<<g[1], IF g[2] = <<>> /\ limb = 0 THEN g[2]
                                         ELSE <<limb>> \o g[2]>> : g \in {h}}} : TRUE

\* <<quotient, remainder>> by b of the limbs j .. Len(a) of a
RECURSIVE MagLongFrom(_, _, _)
MagLongFrom(a, b, j) ==
    IF j > Len(a) THEN <<(<<>>), (<<>>)>>
    ELSE MagLongStep(a[j], b, MagLongFrom(a, b, j + 1))

\* long division by limbs after scaling a and b by f, which brings the top
\* limb of b to LimbBase \div 2 at least; the remainder is scaled back
MagScaledDiv(qr, f) == <<qr[1], MagShortDiv(qr[2], f)>>

MagLongDiv(a, b, f) ==
    CHOOSE y \in {MagScaledDiv(qr, f) :
                    qr \in {MagLongFrom(x[1], x[2], 1) :
                              x \in {<<MagScale(a, f), MagScale(b, f)>>}}} : TRUE

\* <<quotient, remainder>> of the magnitudes a and b, b # 0
MagDivMod(a, b) ==
    IF MagCmp(a, b) < 0 THEN <<(<<>>), a>>
    ELSE IF Fits(a) /\ Fits(b)
    THEN <<MagOfInt(IntOf(a) \div IntOf(b)), MagOfInt(IntOf(a) % IntOf(b))>>
    ELSE MagLongDiv(a, b, LimbBase \div (b[Len(b)] + 1))

WithSign(m, neg) == IF neg THEN Neg(m) ELSE m

BigLt(a, b) ==
    IF IsNeg(a) # IsNeg(b) THEN IsNeg(a)
    ELSE IF IsNeg(a) THEN MagCmp(Neg(a), Neg(b)) > 0
    ELSE MagCmp(a, b) < 0

BigLe(a, b) == a = b \/ BigLt(a, b)

\* the sum of two values given by magnitude and sign
SignedAdd(x, nx, y, ny) ==
    IF nx = ny THEN WithSign(MagAdd(x, y), nx)
    ELSE IF MagCmp(x, y) >= 0 THEN WithSign(MagSub(x, y), nx)
    ELSE WithSign(MagSub(y, x), ny)

BigAdd(a, b) ==
    CHOOSE y \in {IF Fits(x[1]) /\ Fits(x[2]) THEN Big(IntOf(x[1]) + IntOf(x[2]))
                   ELSE SignedAdd(Abs(x[1]), IsNeg(x[1]), Abs(x[2]), IsNeg(x[2])) :
                    x \in {<<a, b>>}} : TRUE

BigSub(a, b) == BigAdd(a, Neg(b))

BigMul(a, b) ==
    CHOOSE y \in {WithSign(MagMul(Abs(x[1]), Abs(x[2])), IsNeg(x[1]) # IsNeg(x[2])) :
                    x \in {<<a, b>>}} : TRUE

(* Python's // and %: the quotient is rounded toward minus infinity and the
   remainder has the sign of the divisor.  qr is <<quotient, remainder>> of
   the magnitudes, same tells that a and b have the same sign. *)
FloorQuotient(qr, same) ==
    IF same THEN qr[1]
    ELSE IF qr[2] = <<>> THEN Neg(qr[1])
    ELSE Neg(MagAddC(qr[1], <<>>, 1))

FloorRemainder(qr, same, b) ==
    WithSign(IF same \/ qr[2] = <<>> THEN qr[2] ELSE MagSub(Abs(b), qr[2]), IsNeg(b))

BigFloorDiv(a, b) ==
    CHOOSE y \in UNION {{FloorQuotient(qr, IsNeg(x[1]) = IsNeg(x[2])) :
                             qr \in {MagDivMod(Abs(x[1]), Abs(x[2]))}} :
                          x \in {<<a, b>>}} : TRUE

BigMod(a, b) ==
    CHOOSE y \in UNION {{FloorRemainder(qr, IsNeg(x[1]) = IsNeg(x[2]), x[2]) :
                             qr \in {MagDivMod(Abs(x[1]), Abs(x[2]))}} :
                          x \in {<<a, b>>}} : TRUE

(***************************************************************************)
(* Bounds of the model                                                     *)
(***************************************************************************)
\* egcd and modinv are called with every a, b in 0..MaxArg
MaxArg == 24
\* is_probable_prime is called with every n in -2..MaxN
MaxN == 48
\* and with every round count in 0..MaxRounds, and with the default
MaxRounds == 2
\* a draw from a range of at most FullDraw values can return each of them;
\* a draw from a larger range returns its two smallest or its largest value
FullDraw == 48

\* further arguments of is_probable_prime: the composites 961, 1147, 1271,
\* 4033 and 4681 have no prime factor below 31 and reach the Miller-Rabin
\* rounds (4033 and 4681 are strong pseudoprimes to base 2); 341 = 11 * 31
\* is a Fermat pseudoprime to base 2; 7919 is prime
OracleProbes == {341, 961, 1147, 1271, 4033, 4681, 7919}
\* encrypt_int is called with every m in -2..MaxMod+2, e in 0..MaxExp and
\* n in -1..MaxMod
MaxMod == 12
MaxExp == 5
\* the keys of the round trips are made of the primes up to MaxPrime, and
\* of the two primes of WidePrimes
MaxPrime == 13
WidePrimes == {251, 257}
WideExponents == {3, 17}
\* the texts are the strings of at most MaxTextLen characters of Alphabet:
\* NUL, "A" and the two-byte e-acute
MaxTextLen == 2
\* int_to_bytes is called with every integer of -1 .. MaxInt
MaxInt == 260
Alphabet == {0, 65, 233}
\* a draw of at most FullBits random bits can return every value; a draw of
\* more bits returns a value of BitsPool
FullBits == 5
\* with the top and the low bit set, as generate_prime sets them, the pool
\* gives at 16 bits 32769 = 3 * 10923, the primes 32771, 65519 and 65521,
\* the composite 34571 = 181 * 191 and the strong pseudoprime 42799 to base 2,
\* and at 20 bits the primes 589807, 917519 = 14 * 65537 + 1 and 1048573
BitsPool == {0, 2, 34570, 42798, 65518, 65520, 917518, 1048572, 2147483646}
\* further arguments of egcd and modinv, of two and three limbs
WideArgs == {65537, 1073807360, 2147483647}

(***************************************************************************)
(* Errors                                                                  *)
(***************************************************************************)
NoError == "none"
ErrPrimeBits == "ValueError: prime_bits too small for RSA"
ErrNoInverse == "ValueError: no inverse, gcd != 1"
ErrRange == "ValueError: m must be in 1..n-1"
ErrTooLong == "ValueError: message too long for n"
ErrAssert == "AssertionError"
ErrDecode == "UnicodeDecodeError"
ErrOverflow == "OverflowError"

(***************************************************************************)
(* secrets: the values a draw can return                                   *)
(***************************************************************************)
randbelow(m) == IF m <= FullDraw THEN 0 .. (m - 1) ELSE {0, 1, m - 1}

\* randbelow for an m of more than 31 bits
randbelow_wide(m) ==
    {r \in {Big(0), Big(1), Big(2), Big(4), Big(65534), BigSub(m, Big(1))} :
        BigLe(<<>>, r) /\ BigLt(r, m)}

RECURSIVE Pow2(_)
Pow2(k) == IF k = 0 THEN 1 ELSE 2 * Pow2(k - 1)

RECURSIVE bit_length(_)
bit_length(i) ==
    IF i >= 16 THEN 4 + bit_length(i \div 16)
    ELSE IF i >= 8 THEN 4
    ELSE IF i >= 4 THEN 3
    ELSE IF i >= 2 THEN 2
    ELSE i

randbits(k) ==
    IF k <= FullBits THEN 0 .. (Pow2(k) - 1)
    ELSE {r \in BitsPool : bit_length(r) <= k}

\* a | b for a, b >= 0
RECURSIVE BitOr(_, _)
BitOr(a, b) ==
    IF a = 0 THEN b
    ELSE IF b = 0 THEN a
    ELSE (IF a % 4 = b % 4 \/ b % 4 = 0 THEN a % 4
          ELSE IF a % 4 = 0 THEN b % 4
          ELSE 3) + 4 * BitOr(a \div 4, b \div 4)

(***************************************************************************)
(* Modular arithmetic                                                      *)
(***************************************************************************)
\* a * b mod m for 0 <= a, 0 <= b < m < 2^22, without leaving 31 bits
RECURSIVE MulMod(_, _, _)
MulMod(a, b, m) ==
    IF a < 256 THEN (a * b) % m
    ELSE (MulMod(a \div 256, b, m) * 256 + (a % 256) * b) % m

\* base^k mod m for a digit k of the exponent, 0 <= base < mod
RECURSIVE pow_digit(_, _, _)
pow_digit(base, k, mod) ==
    IF k = 0 THEN 1 % mod ELSE MulMod(pow_digit(base, k - 1, mod), base, mod)

\* h^4 * base^k mod m, where h is the power for the exponent without its
\* last digit k in base 4
pow_shift(h, base, k, mod) ==
    IF h = 0 THEN 0
    ELSE MulMod(MulMod(MulMod(h, h, mod), MulMod(h, h, mod), mod),
                pow_digit(base, k, mod), mod)

\* the three-argument pow of Python for exp >= 0 and mod >= 1
RECURSIVE pow(_, _, _)
pow(base, exp, mod) ==
    IF exp = 0 THEN 1 % mod
    ELSE CHOOSE y \in {pow_shift(h, base % mod, exp % 4, mod) :
                          h \in {pow(base, exp \div 4, mod)}} : TRUE

\* line 55 with a % b in the place of a // b
egcd_step_remainder(a, b, r) ==
    <<r[1], r[3], BigSub(r[2], BigMul(BigMod(a, b), r[3]))>>

\* lines 53-56: (g, x, y) from r = (g, x1, y1) = egcd(b, a % b)
egcd_step(a, b, r) == <<r[1], r[3], BigSub(r[2], BigMul(BigFloorDiv(a, b), r[3]))>>

RECURSIVE egcd(_, _)
egcd(a, b) ==
    IF b = <<>> THEN <<a, Big(1), Big(0)>>
    ELSE CHOOSE t \in {egcd_step(a, b, r) :
                          r \in {egcd(b, m) : m \in {BigMod(a, b)}}} : TRUE

\* line 63 without the reduction mod m
modinv_result_unreduced(r, m) ==
    IF r[1] # Big(1)
    THEN [raised |-> ErrNoInverse, value |-> <<>>]
    ELSE [raised |-> NoError, value |-> r[2]]

\* lines 61-63, with r = (g, x, _) = egcd(a, m)
modinv_result(r, m) ==
    IF r[1] # Big(1)
    THEN [raised |-> ErrNoInverse, value |-> <<>>]
    ELSE [raised |-> NoError, value |-> BigMod(r[2], m)]

modinv(a, m) == CHOOSE y \in {modinv_result(r, m) : r \in {egcd(a, m)}} : TRUE

\* math.gcd
RECURSIVE gcd(_, _)
gcd(a, b) ==
    IF b = <<>> THEN Abs(a)
    ELSE CHOOSE g \in {gcd(b, m) : m \in {BigMod(a, b)}} : TRUE

(***************************************************************************)
(* Primality oracle                                                        *)
(***************************************************************************)
small_primes == <<2, 3, 5, 7, 11, 13, 17, 19, 23, 29>>

DefaultRounds == 40

\* the first small prime that divides n, 0 when there is none
RECURSIVE small_divisor(_, _)
small_divisor(n, j) ==
    IF j > Len(small_primes) THEN 0
    ELSE IF n % small_primes[j] = 0 THEN small_primes[j]
    ELSE small_divisor(n, j + 1)

\* n - 1 = 2^s * d with d odd
RECURSIVE odd_part(_)
odd_part(d) == IF d % 2 = 0 THEN odd_part(d \div 2) ELSE d

RECURSIVE two_exponent(_)
two_exponent(d) == IF d % 2 = 0 THEN 1 + two_exponent(d \div 2) ELSE 0

\* the inner loop accepting a square equal to 1 as well
RECURSIVE squarings_or_one(_, _, _)
squarings_or_one(x, n, j) ==
    IF j <= 0 THEN FALSE
    ELSE \E y \in {pow(x, 2, n)} :
            IF y = n - 1 \/ y = 1 THEN TRUE ELSE squarings_or_one(y, n, j - 1)

\* the inner loop: j squarings of x, TRUE when one of them gives n - 1
RECURSIVE squarings(_, _, _)
squarings(x, n, j) ==
    IF j <= 0 THEN FALSE
    ELSE \E y \in {pow(x, 2, n)} :
            IF y = n - 1 THEN TRUE ELSE squarings(y, n, j - 1)

\* one round with the inner loop one turn short
round_passes_short(n, d, s, a) ==
    \E x \in {pow(a, d, n)} : x = 1 \/ x = n - 1 \/ squarings(x, n, s - 2)

\* one round with base a: TRUE when the round passes
round_passes(n, d, s, a) ==
    \E x \in {pow(a, d, n)} : x = 1 \/ x = n - 1 \/ squarings(x, n, s - 1)

(***************************************************************************)
(* Cipher engine                                                           *)
(***************************************************************************)
\* line 114 with m = n let through
encrypt_int_inclusive(m, e, n) ==
    IF ~(0 < m /\ m <= n)
    THEN [raised |-> ErrRange, value |-> 0]
    ELSE [raised |-> NoError, value |-> pow(m, e, n)]

\* lines 112-116
encrypt_int(m, e, n) ==
    IF ~(0 < m /\ m < n)
    THEN [raised |-> ErrRange, value |-> 0]
    ELSE [raised |-> NoError, value |-> pow(m, e, n)]

\* line 120 with the public modulus reduced by one
decrypt_int_wrong_modulus(c, d, n) == pow(c, d, n - 1)

\* lines 118-120
decrypt_int(c, d, n) == pow(c, d, n)

(***************************************************************************)
(* Transcoder: a text is a sequence of code points, bytes are 0..255       *)
(***************************************************************************)
\* str.encode("utf-8") of one character
utf8_char(cp) ==
    IF cp < 128 THEN <<cp>>
    ELSE IF cp < 2048 THEN <<192 + (cp \div 64), 128 + (cp % 64)>>
    ELSE IF cp < 65536
    THEN <<224 + (cp \div 4096), 128 + ((cp \div 64) % 64), 128 + (cp % 64)>>
    ELSE <<240 + (cp \div 262144), 128 + ((cp \div 4096) % 64),
           128 + ((cp \div 64) % 64), 128 + (cp % 64)>>

RECURSIVE utf8_encode(_)
utf8_encode(text) ==
    IF text = <<>> THEN <<>> ELSE utf8_char(Head(text)) \o utf8_encode(Tail(text))

IsContinuation(b) == 128 <= b /\ b <= 191

\* the length of the well-formed sequence that starts b, 0 when there is none
utf8_first(b) ==
    IF b[1] < 128 THEN 1
    ELSE IF /\ 194 <= b[1] /\ b[1] <= 223 /\ Len(b) >= 2
            /\ IsContinuation(b[2])
    THEN 2
    ELSE IF /\ 224 <= b[1] /\ b[1] <= 239 /\ Len(b) >= 3
            /\ IsContinuation(b[2]) /\ IsContinuation(b[3])
            /\ (b[1] = 224 => b[2] >= 160)
            /\ (b[1] = 237 => b[2] < 160)
    THEN 3
    ELSE IF /\ 240 <= b[1] /\ b[1] <= 244 /\ Len(b) >= 4
            /\ IsContinuation(b[2]) /\ IsContinuation(b[3]) /\ IsContinuation(b[4])
            /\ (b[1] = 240 => b[2] >= 144)
            /\ (b[1] = 244 => b[2] < 144)
    THEN 4
    ELSE 0

\* the code point of a well-formed sequence of k bytes
utf8_code_point(b, k) ==
    IF k = 1 THEN b[1]
    ELSE IF k = 2 THEN (b[1] - 192) * 64 + (b[2] - 128)
    ELSE IF k = 3 THEN (b[1] - 224) * 4096 + (b[2] - 128) * 64 + (b[3] - 128)
    ELSE (b[1] - 240) * 262144 + (b[2] - 128) * 4096 + (b[3] - 128) * 64 + (b[4] - 128)

RECURSIVE utf8_valid(_)
utf8_valid(b) ==
    IF b = <<>> THEN TRUE
    ELSE IF utf8_first(b) = 0 THEN FALSE
    ELSE utf8_valid(SubSeq(b, utf8_first(b) + 1, Len(b)))

RECURSIVE utf8_text(_)
utf8_text(b) ==
    IF b = <<>> THEN <<>>
    ELSE <<utf8_code_point(b, utf8_first(b))>>
         \o utf8_text(SubSeq(b, utf8_first(b) + 1, Len(b)))

\* bytes.decode("utf-8")
utf8_decode(b) ==
    IF utf8_valid(b)
    THEN [raised |-> NoError, value |-> utf8_text(b)]
    ELSE [raised |-> ErrDecode, value |-> <<>>]

\* int.from_bytes(b, byteorder="big")
RECURSIVE bytes_to_int(_)
bytes_to_int(b) ==
    IF b = <<>> THEN <<>>
    ELSE BigAdd(BigMul(bytes_to_int(SubSeq(b, 1, Len(b) - 1)), Big(256)), Big(b[Len(b)]))

\* i.bit_length()
RECURSIVE big_bit_length(_)
big_bit_length(i) ==
    IF i = <<>> THEN 0
    ELSE IF Len(i) = 1 THEN bit_length(IF i[1] < 0 THEN 0 - i[1] ELSE i[1])
    ELSE 15 + big_bit_length(Tail(i))

\* i.to_bytes(length, byteorder="big") for an i >= 0 that fits
RECURSIVE to_bytes(_, _)
to_bytes(i, length) ==
    IF length = 0 THEN <<>>
    ELSE to_bytes(BigFloorDiv(i, Big(256)), length - 1) \o <<IntOf(BigMod(i, Big(256)))>>

\* line 127 with one spare byte
int_to_bytes_padded(i) == to_bytes(i, (big_bit_length(i) + 8) \div 8)

int_to_bytes(i) == to_bytes(i, (big_bit_length(i) + 7) \div 8)

\* line 134 with m = n let through
encrypt_message_of_above(m, e, n) ==
    IF BigLt(Big(n), m)
    THEN [raised |-> ErrTooLong, value |-> 0]
    ELSE encrypt_int(IntOf(m), e, n)

\* lines 133-136, with m = bytes_to_int(message.encode("utf-8"))
encrypt_message_of(m, e, n) ==
    IF BigLe(Big(n), m)
    THEN [raised |-> ErrTooLong, value |-> 0]
    ELSE encrypt_int(IntOf(m), e, n)

encrypt_message(message, e, n) == encrypt_message_of(bytes_to_int(utf8_encode(message)), e, n)

decrypt_message(cipher_int, d, n) == utf8_decode(int_to_bytes(Big(decrypt_int(cipher_int, d, n))))

(***************************************************************************)
(* Calls                                                                   *)
(***************************************************************************)
EntryPoints ==
    {"egcd", "modinv", "is_probable_prime", "generate_keypair", "encrypt_int",
     "int_round_trip", "message_round_trip", "generate_prime",
     "encrypt_message", "decrypt_int", "int_to_bytes"}

\* an optional argument: None, or a value
None == <<>>
Some(v) == <<v>>

MIN_PRIME_BITS == 16
FIXED_E == 65537

\* the keys {p, q, n, phi, e, d} with primes p < q of ps, n = p * q,
\* phi = (p - 1) * (q - 1), e in es (in 1..phi-1 when es is empty) and
\* e * d mod phi = 1
KeysOf(ps, es) ==
    UNION {UNION {{[p |-> p, q |-> q, n |-> p * q, phi |-> (p - 1) * (q - 1), e |-> e, d |-> d] :
                     d \in {x \in 1 .. ((p - 1) * (q - 1) - 1) :
                              MulMod(e, x, (p - 1) * (q - 1)) = 1}} :
                  e \in IF es = {} THEN 1 .. ((p - 1) * (q - 1) - 1) ELSE es} :
           <<p, q>> \in {pq \in ps \X ps : pq[1] < pq[2]}}

SmallPrimes == {p \in 2 .. MaxPrime : \A f \in 2 .. (p - 1) : p % f # 0}

WideKeys == KeysOf(WidePrimes, WideExponents)

Keys == KeysOf(SmallPrimes, {}) \cup WideKeys

RECURSIVE TextsUpTo(_)
TextsUpTo(k) ==
    IF k = 0 THEN {<<>>}
    ELSE TextsUpTo(k - 1) \cup {<<c>> \o t : c \in Alphabet, t \in TextsUpTo(k - 1)}

Texts == TextsUpTo(MaxTextLen)

\* further arguments of encrypt_int
EncryptProbes ==
    [m : {0, 1, 2, 64506, 64507, 64508}, e : WideExponents, n : {64507}]

\* the moduli encrypt_message is called with besides -1..MaxMod: around the
\* integers 65 of "A", 16705 of "AA" and 50089 of the e-acute
MessageModuli == {65, 66, 127, 128, 16705, 16706, 50089, 50090, 64507}

\* further arguments of int_to_bytes, as limbs: 65535, 65536, 2^24 - 1, 2^24,
\* 2^31 - 1, 2^31, 2^32 - 1, 2^32, 2^45
TranscoderProbes ==
    {<<32767, 1>>, <<0, 2>>, <<32767, 511>>, <<0, 512>>, <<32767, 32767, 1>>,
     <<0, 0, 2>>, <<32767, 32767, 3>>, <<0, 0, 4>>, <<0, 0, 0, 1>>}

\* further arguments of decrypt_int: ciphertexts below, at and above the
\* modulus 64507 and below zero
DecryptProbes ==
    [c : {-64508, -1, 0, 2, 64506, 64507, 64508, 129016, 2147483647},
     d : WideExponents, n : {64507}]

\* the bit counts generate_prime is called with
PrimeArgBits == (-1 .. FullBits) \cup {MIN_PRIME_BITS}

PrimeBitsChoices == (-1 .. MIN_PRIME_BITS) \cup {20}
EBitsChoices == {None, Some(1), Some(3), Some(31)}

Args(f) ==
    CASE f = "egcd" ->
            [a : 0 .. MaxArg, b : 0 .. MaxArg]
               \cup [a : WideArgs \cup {0, 1}, b : WideArgs \cup {0, 1}]
      [] f = "modinv" ->
            [a : 0 .. MaxArg, m : 1 .. MaxArg]
               \cup [a : WideArgs \cup {0, 1}, m : WideArgs \cup {1}]
      [] f = "is_probable_prime" ->
            [n : (-2 .. MaxN) \cup OracleProbes,
             k : (0 .. MaxRounds) \cup {DefaultRounds}]
      [] f = "encrypt_int" ->
            [m : (-2) .. (MaxMod + 2), e : 0 .. MaxExp, n : (-1) .. MaxMod]
               \cup EncryptProbes
      [] f = "int_round_trip" ->
            {[key |-> k, m |-> m] : <<k, m>> \in
                {km \in Keys \X (1 .. 150) : km[2] < km[1].n}}
               \cup {[key |-> k, m |-> m] : k \in WideKeys,
                                            m \in {16705, 50089, 64505, 64506}}
      [] f = "message_round_trip" -> [key : Keys, text : Texts]
      [] f = "generate_keypair" ->
            [prime_bits : PrimeBitsChoices, use_random_e : BOOLEAN, e_bits : EBitsChoices]
      [] f = "generate_prime" -> [bits : PrimeArgBits]
      [] f = "int_to_bytes" ->
            [i : {Big(x) : x \in (-1) .. MaxInt} \cup TranscoderProbes]
      [] f = "decrypt_int" ->
            [c : (-3) .. (MaxMod + 3), d : 0 .. MaxExp, n : 2 .. MaxMod]
               \cup DecryptProbes
      [] f = "encrypt_message" ->
            [text : Texts, e : WideExponents, n : ((-1) .. MaxMod) \cup MessageModuli]

NoFrameKp == [prime_bits |-> 0, use_random_e |-> FALSE, e_bits |-> None,
              p |-> 0, q |-> 0, n |-> <<>>, phi |-> <<>>, e |-> <<>>, d |-> <<>>]
NoFrameCc == [phi |-> <<>>, bits |-> None]
NoFrameSc == [c |-> 0]
NoFrameGp == [bits |-> 0, p |-> 0]
NoFramePp == [n |-> 0, k |-> 0, d |-> 0, s |-> 0, i |-> 0, a |-> 0]

Init ==
    /\ op \in EntryPoints
    /\ arg \in Args(op)
    /\ pc = "start"
    /\ stack = <<>>
    /\ kp = NoFrameKp
    /\ gp = NoFrameGp
    /\ pp = NoFramePp
    /\ cc = NoFrameCc
    /\ sc = NoFrameSc
    /\ result = [none |-> "none"]
    /\ err = NoError

\* the function that the position pc is in
callee ==
    IF pc \in {"pp_enter", "pp_round"} THEN "is_probable_prime"
    ELSE IF pc = "gp_test" THEN "generate_prime"
    ELSE IF pc = "cc_draw" THEN "choose_random_coprime"
    ELSE op

\* return v to the caller
Return(v) ==
    /\ pc' = IF stack = <<>> THEN "done" ELSE Head(stack)
    /\ stack' = IF stack = <<>> THEN stack ELSE Tail(stack)
    /\ result' = [f \in {callee} |-> v]
    /\ err' = err

\* raise e: no caller catches it
Raise(e) ==
    /\ err' = e
    /\ pc' = "done"
    /\ stack' = <<>>
    /\ result' = result

call_egcd ==
    /\ op = "egcd" /\ pc = "start"
    /\ Return(egcd(Big(arg.a), Big(arg.b)))
    /\ UNCHANGED <<op, arg, kp, gp, pp, cc, sc>>

call_modinv ==
    /\ op = "modinv" /\ pc = "start"
    /\ \E r \in {modinv(Big(arg.a), Big(arg.m))} :
          IF r.raised # NoError THEN Raise(r.raised) ELSE Return(r.value)
    /\ UNCHANGED <<op, arg, kp, gp, pp, cc, sc>>

call_is_probable_prime ==
    /\ op = "is_probable_prime" /\ pc = "start"
    /\ pp' = [NoFramePp EXCEPT !.n = arg.n, !.k = arg.k]
    /\ pc' = "pp_enter"
    /\ UNCHANGED <<op, arg, stack, kp, gp, cc, sc, result, err>>

\* line 13 returning False for every multiple of a small prime
is_probable_prime_enter_no_equal ==
    /\ pc = "pp_enter"
    /\ IF pp.n < 2 THEN Return(FALSE) /\ pp' = pp
       ELSE IF small_divisor(pp.n, 1) # 0
       THEN Return(FALSE) /\ pp' = pp
       ELSE /\ pp' = [pp EXCEPT !.d = odd_part(pp.n - 1),
                                !.s = two_exponent(pp.n - 1)]
            /\ pc' = "pp_round"
            /\ UNCHANGED <<stack, result, err>>
    /\ UNCHANGED <<op, arg, kp, gp, cc, sc>>

\* lines 8-18: n < 2, the small primes, n - 1 = 2^s * d
is_probable_prime_enter ==
    /\ pc = "pp_enter"
    /\ IF pp.n < 2 THEN Return(FALSE) /\ pp' = pp
       ELSE IF small_divisor(pp.n, 1) # 0
       THEN Return(pp.n = small_divisor(pp.n, 1)) /\ pp' = pp
       ELSE /\ pp' = [pp EXCEPT !.d = odd_part(pp.n - 1),
                                !.s = two_exponent(pp.n - 1)]
            /\ pc' = "pp_round"
            /\ UNCHANGED <<stack, result, err>>
    /\ UNCHANGED <<op, arg, kp, gp, cc, sc>>

\* lines 19-32: one round, or the end of the loop
is_probable_prime_round ==
    /\ pc = "pp_round"
    /\ IF pp.i >= pp.k THEN Return(TRUE) /\ pp' = pp
       ELSE \E r \in randbelow(pp.n - 3) :
              LET a == r + 2
              IN /\ pp' = [pp EXCEPT !.a = a, !.i = pp.i + 1]
                 /\ IF round_passes(pp.n, pp.d, pp.s, a)
                    THEN UNCHANGED <<pc, stack, result, err>>
                    ELSE Return(FALSE)
    /\ UNCHANGED <<op, arg, kp, gp, cc, sc>>

\* the call generate_prime(bits), returning to position back
CallGeneratePrime(bits, back) ==
    /\ gp' = [bits |-> bits, p |-> 0]
    /\ stack' = <<back>> \o stack
    /\ pc' = "gp_assert"

\* line 38
generate_prime_assert ==
    /\ pc = "gp_assert"
    /\ IF gp.bits >= 2
       THEN pc' = "gp_draw" /\ UNCHANGED <<stack, result, err>>
       ELSE Raise(ErrAssert)
    /\ UNCHANGED <<op, arg, kp, gp, pp, cc, sc>>

call_generate_prime ==
    /\ op = "generate_prime" /\ pc = "start"
    /\ gp' = [bits |-> arg.bits, p |-> 0]
    /\ pc' = "gp_assert"
    /\ UNCHANGED <<op, arg, stack, kp, pp, cc, sc, result, err>>

\* line 40 without the low bit
prime_candidate_no_low_bit(r, bits) == BitOr(r, Pow2(bits - 1))

\* line 40: the random bits r with the top and the low bit set
prime_candidate(r, bits) ==
    CHOOSE y \in {BitOr(x, 1) : x \in {BitOr(r, t) : t \in {Pow2(bits - 1)}}} : TRUE

\* lines 40-41 when the random bits are r: the candidate goes to the oracle
draw_candidate(r) ==
    /\ pc = "gp_draw"
    /\ r \in randbits(gp.bits)
    /\ gp' = [gp EXCEPT !.p = prime_candidate(r, gp.bits)]
    /\ pp' = [NoFramePp EXCEPT !.n = prime_candidate(r, gp.bits), !.k = DefaultRounds]
    /\ stack' = <<"gp_test">> \o stack
    /\ pc' = "pp_enter"
    /\ UNCHANGED <<op, arg, kp, cc, sc, result, err>>

\* lines 40-41: a candidate with the top and the low bit set goes to the oracle
generate_prime_draw ==
    /\ pc = "gp_draw"
    /\ \E r \in randbits(gp.bits) : draw_candidate(r)

\* lines 41-42 with the test inverted
generate_prime_test_inverted ==
    /\ pc = "gp_test"
    /\ IF ret = FALSE
       THEN Return(gp.p)
       ELSE pc' = "gp_draw" /\ UNCHANGED <<stack, result, err>>
    /\ UNCHANGED <<op, arg, kp, gp, pp, cc, sc>>

\* lines 41-42: return the candidate, or draw again
generate_prime_test ==
    /\ pc = "gp_test"
    /\ IF ret = TRUE
       THEN Return(gp.p)
       ELSE pc' = "gp_draw" /\ UNCHANGED <<stack, result, err>>
    /\ UNCHANGED <<op, arg, kp, gp, pp, cc, sc>>

\* lines 92-95 with prime_bits = 16 rejected too
generate_keypair_enter_strict ==
    /\ op = "generate_keypair" /\ pc = "start"
    /\ IF arg.prime_bits <= MIN_PRIME_BITS
       THEN Raise(ErrPrimeBits) /\ UNCHANGED <<kp, gp>>
       ELSE /\ kp' = [NoFrameKp EXCEPT !.prime_bits = arg.prime_bits,
                                       !.use_random_e = arg.use_random_e,
                                       !.e_bits = arg.e_bits]
            /\ CallGeneratePrime(arg.prime_bits, "kp_p")
            /\ UNCHANGED <<result, err>>
    /\ UNCHANGED <<op, arg, pp, cc, sc>>

\* lines 92-95
generate_keypair_enter ==
    /\ op = "generate_keypair" /\ pc = "start"
    /\ IF arg.prime_bits < MIN_PRIME_BITS
       THEN Raise(ErrPrimeBits) /\ UNCHANGED <<kp, gp>>
       ELSE /\ kp' = [NoFrameKp EXCEPT !.prime_bits = arg.prime_bits,
                                       !.use_random_e = arg.use_random_e,
                                       !.e_bits = arg.e_bits]
            /\ CallGeneratePrime(arg.prime_bits, "kp_p")
            /\ UNCHANGED <<result, err>>
    /\ UNCHANGED <<op, arg, pp, cc, sc>>

\* lines 95-97 asking for a q of a quarter of the bits of p
generate_keypair_p_short_q ==
    /\ pc = "kp_p"
    /\ kp' = [kp EXCEPT !.p = ret]
    /\ CallGeneratePrime(kp.prime_bits \div 4, "kp_q")
    /\ UNCHANGED <<op, arg, pp, cc, sc, result, err>>

\* lines 95-97
generate_keypair_p ==
    /\ pc = "kp_p"
    /\ kp' = [kp EXCEPT !.p = ret]
    /\ CallGeneratePrime(kp.prime_bits, "kp_q")
    /\ UNCHANGED <<op, arg, pp, cc, sc, result, err>>

\* lines 97-101 without the loop that draws q again when q = p
generate_keypair_q_once ==
    /\ pc = "kp_q"
    /\ kp' = [kp EXCEPT !.q = ret,
                        !.n = BigMul(Big(kp.p), Big(ret)),
                        !.phi = BigMul(Big(kp.p - 1), Big(ret - 1))]
    /\ pc' = "kp_e"
    /\ UNCHANGED <<op, arg, stack, gp, pp, cc, sc, result, err>>

\* lines 97-101
generate_keypair_q ==
    /\ pc = "kp_q"
    /\ IF ret = kp.p
       THEN /\ kp' = [kp EXCEPT !.q = ret]
            /\ CallGeneratePrime(kp.prime_bits, "kp_q")
       ELSE /\ kp' = [kp EXCEPT !.q = ret,
                                !.n = BigMul(Big(kp.p), Big(ret)),
                                !.phi = BigMul(Big(kp.p - 1), Big(ret - 1))]
            /\ pc' = "kp_e"
            /\ UNCHANGED <<stack, gp>>
    /\ UNCHANGED <<op, arg, pp, cc, sc, result, err>>

\* lines 102-105 without the fallback of lines 106-108
generate_keypair_e_fixed ==
    /\ pc = "kp_e"
    /\ IF ~kp.use_random_e
       THEN /\ kp' = [kp EXCEPT !.e = Big(FIXED_E)]
            /\ pc' = "kp_d"
            /\ UNCHANGED <<stack, cc>>
       ELSE /\ kp' = kp
            /\ cc' = [phi |-> kp.phi, bits |-> kp.e_bits]
            /\ stack' = <<"kp_e_ret">> \o stack
            /\ pc' = "cc_draw"
    /\ UNCHANGED <<op, arg, gp, pp, sc, result, err>>

\* lines 102-108
generate_keypair_e ==
    /\ pc = "kp_e"
    /\ IF ~kp.use_random_e /\ gcd(Big(FIXED_E), kp.phi) = Big(1)
       THEN /\ kp' = [kp EXCEPT !.e = Big(FIXED_E)]
            /\ pc' = "kp_d"
            /\ UNCHANGED <<stack, cc>>
       ELSE /\ kp' = [kp EXCEPT !.e = IF kp.use_random_e THEN kp.e ELSE Big(FIXED_E)]
            /\ cc' = [phi |-> kp.phi, bits |-> kp.e_bits]
            /\ stack' = <<"kp_e_ret">> \o stack
            /\ pc' = "cc_draw"
    /\ UNCHANGED <<op, arg, gp, pp, sc, result, err>>

\* the candidates of one turn of the loops of choose_random_coprime
coprime_candidates(phi, bits) ==
    IF bits = None
    THEN {BigAdd(r, Big(3)) : r \in randbelow_wide(BigSub(phi, Big(3)))}
    ELSE {Big(BitOr(r, 1)) : r \in randbits(bits[1])}

\* line 81 without the range check
coprime_accepts_any_range(phi, bits, e) == gcd(e, phi) = Big(1)

\* whether the loop returns the candidate e
coprime_accepts(phi, bits, e) ==
    IF bits = None
    THEN gcd(e, phi) = Big(1)
    ELSE BigLe(Big(2), e) /\ BigLt(e, phi) /\ gcd(e, phi) = Big(1)

\* lines 71-82: one turn of the loop
choose_random_coprime_draw ==
    /\ pc = "cc_draw"
    /\ \E e \in coprime_candidates(cc.phi, cc.bits) :
          IF coprime_accepts(cc.phi, cc.bits, e)
          THEN Return(e)
          ELSE UNCHANGED <<pc, stack, result, err>>
    /\ UNCHANGED <<op, arg, kp, gp, pp, cc, sc>>

\* lines 103 and 108: e is what choose_random_coprime returned
generate_keypair_e_ret ==
    /\ pc = "kp_e_ret"
    /\ kp' = [kp EXCEPT !.e = ret]
    /\ pc' = "kp_d"
    /\ UNCHANGED <<op, arg, stack, gp, pp, cc, sc, result, err>>

\* lines 109-110
generate_keypair_d ==
    /\ pc = "kp_d"
    /\ \E r \in {modinv(kp.e, kp.phi)} :
          IF r.raised # NoError
          THEN Raise(r.raised) /\ kp' = kp
          ELSE /\ kp' = [kp EXCEPT !.d = r.value]
               /\ Return([p |-> kp.p, q |-> kp.q, n |-> kp.n, phi |-> kp.phi,
                          e |-> kp.e, d |-> r.value])
    /\ UNCHANGED <<op, arg, gp, pp, cc, sc>>

call_encrypt_int ==
    /\ op = "encrypt_int" /\ pc = "start"
    /\ \E r \in {encrypt_int(arg.m, arg.e, arg.n)} :
          IF r.raised # NoError THEN Raise(r.raised) ELSE Return(r.value)
    /\ UNCHANGED <<op, arg, kp, gp, pp, cc, sc>>

\* decrypt_int with the range check of encrypt_int
call_decrypt_int_checked ==
    /\ op = "decrypt_int" /\ pc = "start"
    /\ IF ~(0 < arg.c /\ arg.c < arg.n)
       THEN Raise(ErrRange)
       ELSE Return(decrypt_int(arg.c, arg.d, arg.n))
    /\ UNCHANGED <<op, arg, kp, gp, pp, cc, sc>>

call_decrypt_int ==
    /\ op = "decrypt_int" /\ pc = "start"
    /\ Return(decrypt_int(arg.c, arg.d, arg.n))
    /\ UNCHANGED <<op, arg, kp, gp, pp, cc, sc>>

\* to_bytes raises OverflowError for a negative i and for an i of more than
\* 8 * length bits
call_int_to_bytes ==
    /\ op = "int_to_bytes" /\ pc = "start"
    /\ \E b \in {int_to_bytes(arg.i)} :
          IF IsNeg(arg.i) \/ big_bit_length(arg.i) > 8 * Len(b)
          THEN Raise(ErrOverflow)
          ELSE Return(b)
    /\ UNCHANGED <<op, arg, kp, gp, pp, cc, sc>>

call_encrypt_message ==
    /\ op = "encrypt_message" /\ pc = "start"
    /\ \E r \in {encrypt_message(arg.text, arg.e, arg.n)} :
          IF r.raised # NoError THEN Raise(r.raised) ELSE Return(r.value)
    /\ UNCHANGED <<op, arg, kp, gp, pp, cc, sc>>

\* c = encrypt_int(m, e, n)
int_round_trip_encrypt ==
    /\ op = "int_round_trip" /\ pc = "start"
    /\ \E r \in {encrypt_int(arg.m, arg.key.e, arg.key.n)} :
          IF r.raised # NoError
          THEN Raise(r.raised) /\ sc' = sc
          ELSE /\ sc' = [sc EXCEPT !.c = r.value]
               /\ pc' = "decrypt"
               /\ UNCHANGED <<stack, result, err>>
    /\ UNCHANGED <<op, arg, kp, gp, pp, cc>>

\* decrypt_int(c, d, n)
int_round_trip_decrypt ==
    /\ op = "int_round_trip" /\ pc = "decrypt"
    /\ Return(decrypt_int(sc.c, arg.key.d, arg.key.n))
    /\ UNCHANGED <<op, arg, kp, gp, pp, cc, sc>>

\* line 151: c = encrypt_message(text, e, n)
message_round_trip_encrypt ==
    /\ op = "message_round_trip" /\ pc = "start"
    /\ \E r \in {encrypt_message(arg.text, arg.key.e, arg.key.n)} :
          IF r.raised # NoError
          THEN Raise(r.raised) /\ sc' = sc
          ELSE /\ sc' = [sc EXCEPT !.c = r.value]
               /\ pc' = "decrypt"
               /\ UNCHANGED <<stack, result, err>>
    /\ UNCHANGED <<op, arg, kp, gp, pp, cc>>

\* line 153: m0 = decrypt_message(c, d, n)
message_round_trip_decrypt ==
    /\ op = "message_round_trip" /\ pc = "decrypt"
    /\ \E r \in {decrypt_message(sc.c, arg.key.d, arg.key.n)} :
          IF r.raised # NoError THEN Raise(r.raised) ELSE Return(r.value)
    /\ UNCHANGED <<op, arg, kp, gp, pp, cc, sc>>

Next ==
    \/ call_encrypt_int
    \/ int_round_trip_encrypt
    \/ int_round_trip_decrypt
    \/ message_round_trip_encrypt
    \/ message_round_trip_decrypt
    \/ call_egcd
    \/ call_modinv
    \/ call_is_probable_prime
    \/ is_probable_prime_enter
    \/ is_probable_prime_round
    \/ call_generate_prime
    \/ call_encrypt_message
    \/ call_decrypt_int
    \/ call_int_to_bytes
    \/ generate_prime_assert
    \/ generate_prime_draw
    \/ generate_prime_test
    \/ generate_keypair_enter
    \/ generate_keypair_p
    \/ generate_keypair_q
    \/ generate_keypair_e
    \/ choose_random_coprime_draw
    \/ generate_keypair_e_ret
    \/ generate_keypair_d

Spec == Init /\ [][Next]_vars

(***************************************************************************)
(* The searches under fair draws.  secrets.randbits is uniform, so a loop  *)
(* that draws for ever draws every value again and again, and among them   *)
(* a prime candidate when there is one, and one that differs from the p   *)
(* already found: the draw of such a prime is strongly fair.  A rejected   *)
(* draw of choose_random_coprime leaves the state as it is, so weak        *)
(* fairness makes its loop draw an accepted value when there is one.       *)
(* Every other step of the searches changes a variable of position.        *)
(***************************************************************************)
position == <<pc, stack, kp, gp, pp, cc>>

\* the largest f with f * f <= n
isqrt(n) == CHOOSE f \in 0 .. n : f * f <= n /\ (f + 1) * (f + 1) > n

TrialDivision(n) == n >= 2 /\ {f \in 2 .. isqrt(n) : n % f = 0} = {}

\* line 40 drawing a prime, and not the p that generate_keypair holds (line 99)
draw_prime ==
    /\ pc = "gp_draw"
    /\ \E r \in randbits(gp.bits) :
          /\ \E n \in {prime_candidate(r, gp.bits)} : n # kp.p /\ TrialDivision(n)
          /\ draw_candidate(r)

PrimeSearchInit == Init /\ op = "generate_prime"

PrimeSearchNext ==
    \/ call_generate_prime
    \/ generate_prime_assert
    \/ generate_prime_draw
    \/ is_probable_prime_enter
    \/ is_probable_prime_round
    \/ generate_prime_test

PrimeSearchSpec ==
    /\ PrimeSearchInit /\ [][PrimeSearchNext]_vars
    /\ WF_position(PrimeSearchNext) /\ SF_position(draw_prime)

\* generate_keypair(MIN_PRIME_BITS, True, e_bits)
KeySearchInit ==
    Init /\ op = "generate_keypair" /\ arg.use_random_e /\ arg.prime_bits = MIN_PRIME_BITS

KeySearchNext ==
    \/ generate_keypair_enter
    \/ generate_prime_assert
    \/ generate_prime_draw
    \/ is_probable_prime_enter
    \/ is_probable_prime_round
    \/ generate_prime_test
    \/ generate_keypair_p
    \/ generate_keypair_q
    \/ generate_keypair_e
    \/ choose_random_coprime_draw
    \/ generate_keypair_e_ret
    \/ generate_keypair_d

KeySearchSpec ==
    /\ KeySearchInit /\ [][KeySearchNext]_vars
    /\ WF_position(KeySearchNext) /\ SF_position(draw_prime)

(***************************************************************************)
(* Properties                                                              *)
(***************************************************************************)
Divides(g, a) == a % g = 0

\* the greatest common divisor by its definition, gcd(0, 0) = 0
GcdSpec(a, b) ==
    IF a = 0 /\ b = 0 THEN 0
    ELSE LET m == IF a > b THEN a ELSE b
         IN CHOOSE g \in 1 .. m :
               /\ Divides(g, a) /\ Divides(g, b)
               /\ \A h \in (g + 1) .. m : ~(Divides(h, a) /\ Divides(h, b))

IsPrime(n) == n >= 2 /\ \A f \in 2 .. (n - 1) : n % f # 0

\* the greatest common divisor by Euclid's algorithm on machine integers
RECURSIVE EuclidGcd(_, _)
EuclidGcd(a, b) == IF b = 0 THEN a ELSE EuclidGcd(b, a % b)

Small(v) == v <= MaxArg + 1

\* C8: egcd(a, b), for a >= 0 and b >= 0, returns (g, x, y) with
\* g = gcd(a, b) and a*x + b*y = g, where x and y may be negative; for b = 0
\* it returns (a, 1, 0).
C8_egcd ==
    (op = "egcd" /\ pc = "done") =>
        \A a \in {Big(arg.a)}, b \in {Big(arg.b)} :
           /\ err = NoError
           /\ ret[1] = Big(EuclidGcd(arg.a, arg.b))
           /\ BigAdd(BigMul(a, ret[2]), BigMul(b, ret[3])) = ret[1]
           /\ (Small(arg.a) /\ Small(arg.b)) =>
                 /\ IntOf(ret[1]) = GcdSpec(arg.a, arg.b)
                 /\ arg.a * IntOf(ret[2]) + arg.b * IntOf(ret[3]) = IntOf(ret[1])
           /\ (arg.b = 0) => ret = <<a, Big(1), Big(0)>>

\* egcd returned a negative coefficient for wide arguments
C8_witness ==
    /\ op = "egcd" /\ pc = "done"
    /\ arg.a = 65537 /\ arg.b = 1073807360
    /\ IsNeg(ret[3])

\* C7: modinv(a, m), for a >= 0 and m >= 1, raises the no-inverse error
\* exactly when gcd(a, m) # 1, and otherwise returns x with 0 <= x <= m - 1
\* and (a * x) mod m = 1 mod m.
C7_modinv ==
    (op = "modinv" /\ pc = "done") =>
        \A a \in {Big(arg.a)}, m \in {Big(arg.m)} :
           /\ err \in {NoError, ErrNoInverse}
           /\ (err = ErrNoInverse) <=> (EuclidGcd(arg.a, arg.m) # 1)
           /\ (Small(arg.a) /\ Small(arg.m)) =>
                 ((err = ErrNoInverse) <=> (GcdSpec(arg.a, arg.m) # 1))
           /\ (err = NoError) =>
                 /\ BigLe(<<>>, ret) /\ BigLt(ret, m)
                 /\ BigMod(BigMul(a, ret), m) = BigMod(Big(1), m)
                 /\ (Small(arg.a) /\ Small(arg.m)) =>
                       (arg.a * IntOf(ret)) % arg.m = 1 % arg.m

\* modinv returned an inverse that egcd had given as a negative coefficient
C7_witness ==
    /\ op = "modinv" /\ pc = "done" /\ err = NoError
    /\ arg.m > 1
    /\ IsNeg(egcd(Big(arg.a), Big(arg.m))[2])
    /\ ret # <<>>

\* whether n reaches the Miller-Rabin rounds
ReachesRounds(n) == n >= 2 /\ small_divisor(n, 1) = 0

\* C9: the oracle has no false negatives: for every prime n, every round
\* count k >= 0 and every choice of the bases it returns true; for every
\* n < 2 it returns false.
C9_no_false_negative ==
    (op = "is_probable_prime" /\ pc = "done") =>
        /\ err = NoError
        /\ IsPrime(arg.n) => ret = TRUE
        /\ (arg.n < 2) => ret = FALSE

\* a prime passed all of the default 40 rounds
C9_witness ==
    /\ op = "is_probable_prime" /\ pc = "done"
    /\ arg.n = 47 /\ arg.k = DefaultRounds /\ pp.i = DefaultRounds
    /\ ret = TRUE

\* the bases in [2, n-2] with which a round passes
PassingBases(n) ==
    {a \in 2 .. (n - 2) : round_passes(n, odd_part(n - 1), two_exponent(n - 1), a)}

\* C10: for every composite n that reaches the rounds at most one quarter of
\* the n - 3 bases in [2, n-2] make a round pass (so k independent rounds
\* all pass with probability at most 4^-k), and n is accepted only after k
\* rounds that all passed.
C10_false_positive_bound ==
    (op = "is_probable_prime" /\ ReachesRounds(arg.n)) =>
        /\ (pc = "pp_round" /\ pp.i = 0 /\ ~IsPrime(pp.n)) =>
              4 * Cardinality(PassingBases(pp.n)) <= pp.n - 3
        /\ (pc = "pp_round" /\ pp.i > 0) =>
              round_passes(pp.n, pp.d, pp.s, pp.a)
        /\ (pc = "done" /\ ret = TRUE) =>
              /\ pp.i = pp.k
              /\ (pp.k > 0) => round_passes(pp.n, pp.d, pp.s, pp.a)

\* a composite was accepted after 40 rounds that all drew a passing base
C10_witness ==
    /\ op = "is_probable_prime" /\ pc = "done"
    /\ arg.n = 4033 /\ arg.k = DefaultRounds
    /\ ret = TRUE

\* m^e mod n by e multiplications
RECURSIVE NaivePowMod(_, _, _)
NaivePowMod(m, e, n) == IF e = 0 THEN 1 % n ELSE MulMod(NaivePowMod(m, e - 1, n), m % n, n)

ValidKey(k) ==
    /\ IsPrime(k.p) /\ IsPrime(k.q) /\ k.p # k.q
    /\ k.n = k.p * k.q
    /\ k.phi = (k.p - 1) * (k.q - 1)
    /\ MulMod(k.e, k.d, k.phi) = 1

\* C1: for every keypair with distinct primes p, q, n = p*q,
\* phi = (p-1)*(q-1) and e*d mod phi = 1, and every m with 0 < m < n,
\* decrypt_int(encrypt_int(m, e, n), d, n) = m.
C1_int_round_trip ==
    (/\ op = "int_round_trip" /\ pc = "done"
     /\ ValidKey(arg.key) /\ 0 < arg.m /\ arg.m < arg.key.n) =>
        (err = NoError /\ ret = arg.m)

\* a two-byte plaintext came back from a ciphertext that differs from it
C1_witness ==
    /\ op = "int_round_trip" /\ pc = "done"
    /\ arg.key.n = 64507 /\ arg.key.e = 17 /\ arg.m = 50089
    /\ sc.c # arg.m
    /\ ret = arg.m

\* C2: for every valid keypair and every text s whose UTF-8 bytes, read as a
\* big-endian integer, are below n (the empty text and texts that start with
\* NUL included), decrypt_message(encrypt_message(s, e, n), d, n) = s.
C2_text_round_trip ==
    (/\ op = "message_round_trip" /\ pc = "done"
     /\ ValidKey(arg.key)
     /\ BigLt(bytes_to_int(utf8_encode(arg.text)), Big(arg.key.n))) =>
        (err = NoError /\ ret = arg.text)

\* whether some run of is_probable_prime(n, k) returns True
OracleAccepts(n, k) ==
    /\ n >= 2
    /\ IF small_divisor(n, 1) # 0 THEN n = small_divisor(n, 1)
       ELSE \/ k = 0
            \/ \E r \in randbelow(n - 3) :
                  round_passes(n, odd_part(n - 1), two_exponent(n - 1), r + 2)

\* C3: every keypair returned by generate_keypair, in fixed-exponent mode,
\* randomized mode and the fixed-mode fallback, has p # q, p and q accepted
\* by the primality oracle with 40 rounds, n = p*q, phi = (p-1)*(q-1),
\* gcd(e, phi) = 1 and (e*d) mod phi = 1.
C3_keypair_invariants ==
    (op = "generate_keypair") =>
        /\ (pc \in {"kp_p", "kp_q"}) =>
              (ret = pp.n /\ pp.k = DefaultRounds /\ pp.i = DefaultRounds)
        /\ (pc = "done" /\ err = NoError) =>
              /\ ret.p # ret.q
              /\ OracleAccepts(ret.p, DefaultRounds)
              /\ OracleAccepts(ret.q, DefaultRounds)
              /\ ret.q = pp.n /\ pp.k = DefaultRounds /\ pp.i = DefaultRounds
              /\ BigMod(ret.n, Big(ret.p)) = <<>>
              /\ BigFloorDiv(ret.n, Big(ret.p)) = Big(ret.q)
              /\ BigMod(ret.phi, Big(ret.p - 1)) = <<>>
              /\ BigFloorDiv(ret.phi, Big(ret.p - 1)) = Big(ret.q - 1)
              /\ gcd(ret.e, ret.phi) = Big(1)
              /\ BigMod(BigMul(ret.e, ret.d), ret.phi) = Big(1)

\* a keypair was returned by the fixed-mode fallback: 65537 divides phi
C3_witness ==
    /\ op = "generate_keypair" /\ pc = "done" /\ err = NoError
    /\ ~arg.use_random_e
    /\ ret.e # Big(FIXED_E)
    /\ BigMod(ret.phi, Big(FIXED_E)) = <<>>

\* C4: every public exponent of a keypair satisfies 2 <= e < phi, whether it
\* is the fixed 65537, drawn uniformly, or drawn with a requested bit-length.
C4_exponent_bounds ==
    (op = "generate_keypair") =>
        /\ (pc = "kp_d") => (BigLe(Big(2), kp.e) /\ BigLt(kp.e, kp.phi))
        /\ (pc = "done" /\ err = NoError) =>
              (BigLe(Big(2), ret.e) /\ BigLt(ret.e, ret.phi) /\ ret.e = kp.e)

\* the largest exponent, phi - 1, was drawn uniformly
C4_witness ==
    /\ op = "generate_keypair" /\ pc = "done" /\ err = NoError
    /\ arg.use_random_e /\ arg.e_bits = None
    /\ ret.e = BigSub(ret.phi, Big(1))

\* C5: encrypt_int raises the invalid-parameter error for every m outside
\* the open interval (0, n), and for 0 < m < n returns m^e mod n, a value in
\* [0, n-1].
C5_encrypt_int ==
    (op = "encrypt_int" /\ pc = "done") =>
        IF 0 < arg.m /\ arg.m < arg.n
        THEN /\ err = NoError
             /\ ret = NaivePowMod(arg.m, arg.e, arg.n)
             /\ 0 <= ret /\ ret <= arg.n - 1
        ELSE err = ErrRange /\ ret = "none"

\* the largest m of the interval was encrypted
C5_witness ==
    /\ op = "encrypt_int" /\ pc = "done" /\ err = NoError
    /\ arg.n = 64507 /\ arg.m = 64506 /\ arg.e = 17
    /\ ret = 64506

\* C6: for every prime_bits < 16 generate_keypair raises the invalid-
\* parameter error before any prime is drawn and returns no keypair; for
\* prime_bits >= 16 it never raises that error.
C6_prime_bits_check ==
    (op = "generate_keypair") =>
        /\ (arg.prime_bits < 16 /\ pc # "start") =>
              /\ pc = "done" /\ err = ErrPrimeBits /\ ret = "none"
              /\ kp = NoFrameKp /\ gp = NoFrameGp /\ pp = NoFramePp
        /\ (arg.prime_bits >= 16) => err # ErrPrimeBits

\* the call with prime_bits = 15 was rejected
C6_witness ==
    /\ op = "generate_keypair" /\ pc = "done"
    /\ arg.prime_bits = 15 /\ err = ErrPrimeBits

\* C11: generate_prime(bits), for bits >= 2, returns only odd values of
\* bit-length exactly bits that the primality oracle accepted in the call
\* before the return; a call with bits < 2 is rejected by the assertion and
\* returns no value.
C11_generate_prime ==
    (op = "generate_prime") =>
        /\ (arg.bits < 2 /\ pc \notin {"start", "gp_assert"}) =>
              /\ pc = "done" /\ err = ErrAssert /\ ret = "none"
              /\ pp = NoFramePp
        /\ (arg.bits >= 2) => err = NoError
        /\ (arg.bits >= 2 /\ pc = "done") =>
              /\ ret % 2 = 1
              /\ bit_length(ret) = arg.bits
              /\ Pow2(arg.bits - 1) <= ret /\ ret < Pow2(arg.bits)
              /\ ret = pp.n /\ pp.k = DefaultRounds
              /\ IF small_divisor(ret, 1) # 0
                 THEN ret = small_divisor(ret, 1) /\ pp.i = 0
                 ELSE pp.i = pp.k /\ round_passes(pp.n, pp.d, pp.s, pp.a)

\* the five-bit prime 31 was returned after its forty rounds
C11_witness ==
    /\ op = "generate_prime" /\ pc = "done"
    /\ arg.bits = 5 /\ ret = 31 /\ pp.i = DefaultRounds

\* the integer of the UTF-8 bytes of a text
MessageInt(text) == bytes_to_int(utf8_encode(text))

\* C12: encrypt_message fails only with the message-too-large error, and
\* exactly when the integer m of the UTF-8 bytes satisfies m >= n; for every
\* text with m < n it returns a ciphertext.
C12_encrypt_message_errors ==
    (op = "encrypt_message" /\ pc = "done") =>
        /\ err \in {NoError, ErrTooLong}
        /\ (err = ErrTooLong) <=> BigLe(Big(arg.n), MessageInt(arg.text))

\* C15: every text that encrypt_message accepts under modulus n has a UTF-8
\* byte length of at most floor((bit_length(n) - 1) / 8).
C15_size_limit ==
    (op = "encrypt_message" /\ pc = "done" /\ err = NoError) =>
        Len(utf8_encode(arg.text)) <= (big_bit_length(Big(arg.n)) - 1) \div 8

\* C15 as amended: encrypt_message rejects a text as too large exactly when
\* its integer m satisfies m >= n; so a text of at most
\* floor((bit_length(n) - 1) / 8) bytes is never rejected as too large, and
\* the bytes of an accepted text without their leading zero bytes are at
\* most ceil(bit_length(n) / 8).
C15_size_limit_amended ==
    (op = "encrypt_message" /\ pc = "done") =>
        \A m \in {MessageInt(arg.text)} :
           /\ (err = ErrTooLong) <=> BigLe(Big(arg.n), m)
           /\ (arg.n >= 1 /\ Len(utf8_encode(arg.text))
                                <= (big_bit_length(Big(arg.n)) - 1) \div 8) =>
                 err # ErrTooLong
           /\ (err = NoError) =>
                 Len(int_to_bytes(m)) <= (big_bit_length(Big(arg.n)) + 7) \div 8

\* the two bytes of "AA" were accepted under a 16-bit modulus
C15_witness ==
    /\ op = "encrypt_message" /\ pc = "done" /\ err = NoError
    /\ arg.text = <<65, 65>> /\ arg.n = 64507
    /\ Len(utf8_encode(arg.text)) > (big_bit_length(Big(arg.n)) - 1) \div 8

\* C13: decrypt_int never fails on range grounds: for every integer c, also
\* c >= n and c < 0, every d >= 0 and n >= 2 it returns c^d mod n, a value in
\* [0, n-1], and decrypt_int(c, d, n) = decrypt_int(c mod n, d, n).
C13_decrypt_int ==
    (op = "decrypt_int" /\ pc = "done") =>
        /\ err = NoError
        /\ ret = NaivePowMod(arg.c, arg.d, arg.n)
        /\ 0 <= ret /\ ret <= arg.n - 1
        /\ ret = decrypt_int(arg.c % arg.n, arg.d, arg.n)

\* a ciphertext above the modulus was decrypted
C13_witness ==
    /\ op = "decrypt_int" /\ pc = "done" /\ err = NoError
    /\ arg.c = 129016 /\ arg.n = 64507 /\ arg.d = 17
    /\ ret = 2058

\* C14: for every integer i >= 0, int_to_bytes(i) is the minimal big-endian
\* encoding of i: its length is the least number of bytes that hold
\* bit_length(i) bits, it has no leading zero byte, i = 0 gives the empty
\* byte string, and bytes_to_int(int_to_bytes(i)) = i.
C14_int_to_bytes ==
    (op = "int_to_bytes" /\ pc = "done" /\ ~IsNeg(arg.i)) =>
        /\ err = NoError
        /\ \A j \in DOMAIN ret : ret[j] \in 0 .. 255
        /\ 8 * Len(ret) >= big_bit_length(arg.i)
        /\ 8 * Len(ret) < big_bit_length(arg.i) + 8
        /\ (ret # <<>>) => ret[1] # 0
        /\ (arg.i = <<>>) <=> (ret = <<>>)
        /\ bytes_to_int(ret) = arg.i

\* 2^31 was encoded in four bytes
C14_witness ==
    /\ op = "int_to_bytes" /\ pc = "done" /\ err = NoError
    /\ arg.i = <<0, 0, 2>> /\ ret = <<128, 0, 0, 0>>

\* C18: inside generate_keypair the error "no inverse" of modinv cannot
\* happen: modinv is called only with an e whose gcd with phi is 1, in the
\* random mode, in the fixed mode and in the fallback of the fixed mode.
C18_inverse_exists ==
    (op = "generate_keypair") =>
        /\ err # ErrNoInverse
        /\ (pc = "kp_d") => /\ gcd(kp.e, kp.phi) = Big(1)
                            /\ modinv(kp.e, kp.phi).raised = NoError

\* modinv is about to be called with the e of the fallback: 65537 divides phi
C18_witness ==
    /\ op = "generate_keypair" /\ pc = "kp_d"
    /\ ~kp.use_random_e /\ kp.e # Big(FIXED_E)
    /\ BigMod(kp.phi, Big(FIXED_E)) = <<>>

\* C19: for every n >= 2 divisible by a prime q of the list 2, 3, ..., 29,
\* is_probable_prime returns true exactly when n = q, whatever k is, and draws
\* no base; so 2 and 3 are accepted and 4, 15 and 341 are rejected.
C19_small_prime_filter ==
    (op = "is_probable_prime" /\ pc = "done" /\ arg.n >= 2) =>
        /\ \A j \in DOMAIN small_primes :
              Divides(small_primes[j], arg.n) =>
                 /\ err = NoError
                 /\ ret = (arg.n = small_primes[j])
                 /\ ret = IsPrime(arg.n)
                 /\ pp.i = 0 /\ pp.a = 0 /\ pp.d = 0 /\ pp.s = 0
        /\ (arg.n \in {2, 3}) => ret = TRUE
        /\ (arg.n \in {4, 15, 341}) => ret = FALSE

\* 341 = 11 * 31 was rejected in a call of 40 rounds without a round
C19_witness ==
    /\ op = "is_probable_prime" /\ pc = "done"
    /\ arg.n = 341 /\ arg.k = DefaultRounds
    /\ ret = FALSE /\ pp.i = 0

\* C20: the modulus n of a generated keypair has 2 * prime_bits - 1 or
\* 2 * prime_bits bits, p and q having prime_bits bits each.
C20_modulus_bits ==
    (op = "generate_keypair" /\ pc = "done" /\ err = NoError) =>
        /\ bit_length(ret.p) = arg.prime_bits
        /\ bit_length(ret.q) = arg.prime_bits
        /\ big_bit_length(ret.n) \in {2 * arg.prime_bits - 1, 2 * arg.prime_bits}

\* a modulus of 2 * 16 - 1 = 31 bits: 32771 * 65519 = 2147123149
C20_witness ==
    /\ op = "generate_keypair" /\ pc = "done" /\ err = NoError
    /\ arg.prime_bits = MIN_PRIME_BITS
    /\ ret.n = Big(2147123149)
    /\ big_bit_length(ret.n) = 2 * arg.prime_bits - 1

\* C16: for every bits >= 2, when every candidate value is drawn again and
\* again, generate_prime eventually returns; a rejected candidate always
\* leads to another draw: the loop has no retry cap and no error exit.
C16_prime_search_returns ==
    /\ (op = "generate_prime" /\ arg.bits >= 2)
          ~> (pc = "done" /\ err = NoError /\ ret = gp.p)
    /\ [][(pc = "gp_test" /\ ret = FALSE)
             => (pc' = "gp_draw" /\ err' = NoError /\ stack' = stack)]_vars

\* the loop of generate_prime(16) is back at the draw after the oracle
\* rejected 34571 = 181 * 191
C16_witness ==
    /\ op = "generate_prime" /\ arg.bits = MIN_PRIME_BITS
    /\ pc = "gp_draw" /\ gp.p = 34571 /\ ret = FALSE /\ err = NoError

\* C17: for every phi of a keypair with prime_bits >= 16 and every e_bits,
\* absent or any bit count, under fair draws generate_keypair with
\* use_random_e = true eventually returns the keypair.
C17_exponent_search_returns ==
    (op = "generate_keypair" /\ arg.use_random_e
        /\ arg.prime_bits >= MIN_PRIME_BITS)
       ~> (pc = "done" /\ err = NoError)

(***************************************************************************)
(* heming_cipher.py.  A text is the sequence of its code points, a         *)
(* codeword is the list code[0 .. n] whose index 0 is not used, and the    *)
(* bits of a list are 0 or 1.                                              *)
(***************************************************************************)
ErrSymbol == "ValueError: Symbol not in alphabet"
ErrIndex == "IndexError: position out of range"

\* a & b for a, b >= 0
RECURSIVE BitAnd(_, _)
BitAnd(a, b) ==
    IF a = 0 \/ b = 0 THEN 0
    ELSE (IF a % 2 = 1 /\ b % 2 = 1 THEN 1 ELSE 0) + 2 * BitAnd(a \div 2, b \div 2)

\* lines 21-25: math.log2 is exact for the sizes that a list of characters has
ceil_log2(x) ==
    IF x <= 1 THEN 1 ELSE CHOOSE b \in 1 .. x : Pow2(b) >= x /\ Pow2(b - 1) < x

\* lines 33-39: <<k, n, m>> for the first k with m >= m_required
choose_hamming_code_for_m(m_required) ==
    CHOOSE c \in {<<k, Pow2(k) - 1, Pow2(k) - 1 - k>> : k \in 1 .. (m_required + 2)} :
        /\ c[3] >= m_required
        /\ \A j \in 1 .. (c[1] - 1) : Pow2(j) - 1 - j < m_required

is_power_of_two(x) == x # 0 /\ BitAnd(x, x - 1) = 0

\* the value of data_pos when the loop of lines 65-71 is at position i
data_pos(i) == Cardinality({j \in 1 .. (i - 1) : ~is_power_of_two(j)})

place_data_bits_into_codeword(data_bits, n) ==
    [i \in 0 .. n |->
        IF i = 0 \/ is_power_of_two(i) THEN 0
        ELSE IF data_pos(i) < Len(data_bits) THEN data_bits[data_pos(i) + 1]
        ELSE 0]

\* lines 87-92 and 117-120: the positions of code that the loops visit for
\* the parity position p, in blocks of p positions every 2 * p
controlled(code, p) ==
    {q \in p .. (Cardinality(DOMAIN code) - 1) : (q - p) % (2 * p) < p}

\* the xor of the bits code[q], q in qs
xor_bits(code, qs) == Cardinality({q \in qs : code[q] = 1}) % 2

\* lines 82-93: the parity bits are set for j = 0, 1, ..., k - 1 in turn
RECURSIVE compute_parity_bits(_, _)
compute_parity_bits(code, k) ==
    IF k = 0 THEN code
    ELSE CHOOSE y \in {[c EXCEPT ![Pow2(k - 1)] =
                             xor_bits(c, controlled(c, Pow2(k - 1)) \ {Pow2(k - 1)})] :
                          c \in {compute_parity_bits(code, k - 1)}} : TRUE

encode_data_bits_to_codeword(data_bits, k) ==
    compute_parity_bits(place_data_bits_into_codeword(data_bits, Pow2(k) - 1), k)

\* lines 113-123 without the test of the parity position 1
RECURSIVE syndrome_of_codeword_from_two(_, _)
syndrome_of_codeword_from_two(code, k) ==
    IF k <= 1 THEN 0
    ELSE BitOr(syndrome_of_codeword_from_two(code, k - 1),
               IF xor_bits(code, controlled(code, Pow2(k - 1))) # 0 THEN Pow2(k - 1) ELSE 0)

RECURSIVE syndrome_of_codeword(_, _)
syndrome_of_codeword(code, k) ==
    IF k = 0 THEN 0
    ELSE BitOr(syndrome_of_codeword(code, k - 1),
               IF xor_bits(code, controlled(code, Pow2(k - 1))) # 0 THEN Pow2(k - 1) ELSE 0)

\* lines 132-143: <<corrected code, error position or None>>
correct_codeword(code, k) ==
    CHOOSE y \in {IF syn = 0 THEN <<code, None>>
                  ELSE IF 1 <= syn /\ syn <= Cardinality(DOMAIN code) - 1
                  THEN <<[code EXCEPT ![syn] = (code[syn] + 1) % 2], Some(syn)>>
                  ELSE <<code, Some(syn)>> :
                     syn \in {syndrome_of_codeword(code, k)}} : TRUE

extract_data_bits_from_codeword(code, k) ==
    [d \in 1 .. data_pos(Cardinality(DOMAIN code)) |->
        code[CHOOSE i \in DOMAIN code : i >= 1 /\ ~is_power_of_two(i) /\ data_pos(i) = d - 1]]

\* line 162: a symbol listed twice gets its last index
build_alphabet_mapping(alphabet) ==
    [ch \in {alphabet[x] : x \in DOMAIN alphabet} |->
        (CHOOSE x \in DOMAIN alphabet :
            alphabet[x] = ch /\ \A y \in DOMAIN alphabet : alphabet[y] = ch => y <= x) - 1]

\* the bits of x, the most significant first
int_to_bits(x, length) == [i \in 1 .. length |-> (x \div Pow2(length - i)) % 2]

RECURSIVE bits_to_int(_)
bits_to_int(bits) ==
    IF bits = <<>> THEN 0
    ELSE 2 * bits_to_int(SubSeq(bits, 1, Len(bits) - 1)) + (bits[Len(bits)] % 2)

\* lines 186-200: <<codewords, info>>, or the ValueError of line 194
encode_message_with_hamming(message, alphabet) ==
    CHOOSE y \in {IF \E x \in DOMAIN message : message[x] \notin DOMAIN info.mapping
                  THEN [raised |-> ErrSymbol, value |-> <<>>]
                  ELSE [raised |-> NoError,
                        value |-> <<[x \in DOMAIN message |->
                                       encode_data_bits_to_codeword(
                                          int_to_bits(info.mapping[message[x]], info.m), info.k)],
                                    info>>] :
                     info \in {[alphabet |-> alphabet,
                                mapping |-> build_alphabet_mapping(alphabet),
                                symbol_bits |-> ceil_log2(Len(alphabet)),
                                k |-> code[1], n |-> code[2], m |-> code[3]] :
                               code \in {choose_hamming_code_for_m(
                                            ceil_log2(Len(alphabet)))}}} : TRUE

\* "?"
Unknown == 63

\* lines 236-252: the report on the received codeword rec at index idx;
\* fixed is correct_codeword(rec, k) and data_bits are the data bits of its code
decode_report(idx, rec, fixed, data_bits, info) ==
    [index |-> idx, corrected |-> fixed[2] # None, error_position |-> fixed[2],
     received_codeword |-> rec, corrected_codeword |-> fixed[1],
     data_bits |-> data_bits,
     symbol_index |-> bits_to_int(data_bits),
     symbol_char |->
        IF \E ch \in DOMAIN info.mapping : info.mapping[ch] = bits_to_int(data_bits)
        THEN Some(CHOOSE ch \in DOMAIN info.mapping :
                     info.mapping[ch] = bits_to_int(data_bits))
        ELSE None]

\* lines 227-253: <<decoded message, reports>>
decode_codewords(codewords, info) ==
    CHOOSE y \in {<<[x \in DOMAIN reports |->
                       IF reports[x].symbol_char = None THEN Unknown
                       ELSE reports[x].symbol_char[1]],
                    reports>> :
                     reports \in {[x \in DOMAIN codewords |->
                         CHOOSE r \in {decode_report(x - 1, codewords[x], fixed,
                                          extract_data_bits_from_codeword(fixed[1], info.k),
                                          info) :
                                       fixed \in {correct_codeword(codewords[x], info.k)}} :
                            TRUE]}} : TRUE

(***************************************************************************)
(* The script of demo(): encode the message, flip at most one bit in each  *)
(* codeword in turn, decode.                                               *)
(***************************************************************************)
MaxAlphabet == 5
MaxMessage == 2
\* the length of a message over an alphabet of more than MaxAlphabet symbols
WideMessage == 1
\* a message uses the first symbols of the alphabet and its last one
MessageSymbols == 1
\* the first size that needs the (15, 11) code
WideAlphabet == 17
\* the first letter of the alphabet of demo()
FirstSymbol == 1072

AlphabetOf(size) == [x \in 1 .. size |-> FirstSymbol + x - 1]

HammingAlphabets ==
    {AlphabetOf(size) : size \in (0 .. MaxAlphabet) \cup {WideAlphabet}}
       \cup {<<FirstSymbol + 2, FirstSymbol, FirstSymbol + 1>>,
             <<FirstSymbol, FirstSymbol + 1, FirstSymbol>>}

\* an alphabet, and a message over its first symbols, its last symbol and
\* one symbol that is not in it
HammingArgs ==
    {[message |-> message, alphabet |-> alphabet] :
        <<message, alphabet>> \in
           {ma \in (UNION {[1 .. len -> (FirstSymbol .. (FirstSymbol + WideAlphabet))
                                           \cup {Unknown}] : len \in 0 .. MaxMessage})
                      \X HammingAlphabets :
               /\ Len(ma[2]) > MaxAlphabet => Len(ma[1]) <= WideMessage
               /\ \A x \in DOMAIN ma[1] :
                  \/ ma[1][x] = Unknown
                  \/ \E y \in DOMAIN ma[2] :
                        /\ ma[2][y] = ma[1][x]
                        /\ y <= MessageSymbols \/ y = Len(ma[2])}}

NoFrameHamming == [codewords |-> <<>>, info |-> <<>>, flipped |-> <<>>]

HammingInit ==
    /\ op = "hamming_round_trip"
    /\ arg \in HammingArgs
    /\ pc = "start"
    /\ stack = <<>>
    /\ kp = NoFrameKp
    /\ gp = NoFrameGp
    /\ pp = NoFramePp
    /\ cc = NoFrameCc
    /\ sc = NoFrameHamming
    /\ result = [none |-> "none"]
    /\ err = NoError

\* line 268: codewords, info = encode_message_with_hamming(message, alphabet)
hamming_encode ==
    /\ op = "hamming_round_trip" /\ pc = "start"
    /\ \E r \in {encode_message_with_hamming(arg.message, arg.alphabet)} :
          IF r.raised # NoError
          THEN Raise(r.raised) /\ sc' = sc
          ELSE /\ sc' = [sc EXCEPT !.codewords = r.value[1], !.info = r.value[2]]
               /\ pc' = "flip"
               /\ UNCHANGED <<stack, result, err>>
    /\ UNCHANGED <<op, arg, kp, gp, pp, cc>>

\* line 279: flip_bit_in_codeword(codewords[i], position) for the next codeword
hamming_flip ==
    /\ op = "hamming_round_trip" /\ pc = "flip"
    /\ Len(sc.flipped) < Len(sc.codewords)
    /\ \E pos \in 0 .. (sc.info.n + 1) :
          IF pos < 1 \/ pos >= sc.info.n + 1
          THEN Raise(ErrIndex) /\ sc' = sc
          ELSE /\ sc' = [sc EXCEPT
                           !.codewords[Len(sc.flipped) + 1][pos] = (@ + 1) % 2,
                           !.flipped = Append(@, Some(pos))]
               /\ UNCHANGED <<pc, stack, result, err>>
    /\ UNCHANGED <<op, arg, kp, gp, pp, cc>>

\* the next codeword is left as it is
hamming_keep ==
    /\ op = "hamming_round_trip" /\ pc = "flip"
    /\ Len(sc.flipped) < Len(sc.codewords)
    /\ sc' = [sc EXCEPT !.flipped = Append(@, None)]
    /\ UNCHANGED <<op, pc, arg, stack, kp, gp, pp, cc, result, err>>

\* line 289: decoded_message, reports = decode_codewords(codewords, info)
hamming_decode ==
    /\ op = "hamming_round_trip" /\ pc = "flip"
    /\ Len(sc.flipped) = Len(sc.codewords)
    /\ Return(decode_codewords(sc.codewords, sc.info))
    /\ UNCHANGED <<op, arg, kp, gp, pp, cc, sc>>

HammingNext ==
    \/ hamming_encode
    \/ hamming_flip
    \/ hamming_keep
    \/ hamming_decode

HammingSpec == HammingInit /\ [][HammingNext]_vars

\* C21: for an alphabet of unique symbols and a message over it, after the
\* encoding and the flip of at most one bit at a position 1 .. n of each
\* codeword, decode_codewords returns the message, reports the flipped
\* position of each corrupted codeword as its error_position and None for
\* each codeword that was left alone.
C21_hamming_corrects ==
    (/\ op = "hamming_round_trip" /\ pc = "done" /\ err = NoError
     /\ \A x, y \in DOMAIN arg.alphabet : arg.alphabet[x] = arg.alphabet[y] => x = y) =>
        /\ ret[1] = arg.message
        /\ Len(ret[2]) = Len(arg.message)
        /\ \A x \in DOMAIN ret[2] :
              /\ ret[2][x].error_position = sc.flipped[x]
              /\ ret[2][x].corrected = (sc.flipped[x] # None)
              /\ ret[2][x].symbol_char = Some(arg.message[x])

\* "аг" over an alphabet of four letters in the (7, 4) code: bit 5 of the
\* first codeword was flipped, the second codeword was left alone
C21_witness ==
    /\ op = "hamming_round_trip" /\ pc = "done" /\ err = NoError
    /\ arg.alphabet = AlphabetOf(4)
    /\ arg.message = <<FirstSymbol, FirstSymbol + 3>>
    /\ sc.info.n = 7
    /\ sc.flipped = <<Some(5), None>>
    /\ sc.codewords[1][5] = 1
    /\ ret[1] = arg.message
    /\ ret[2][1].error_position = Some(5)
    /\ ret[2][2].error_position = None

(***************************************************************************)
(* stream_cipher.py: a key of 256 numbers stirs the generator GEN, whose   *)
(* gamma is XORed onto the message                                         *)
(***************************************************************************)
ErrKeyLength == "ValueError: KEY of length 256 expected"
ErrByte == "ValueError: byte must be in range(0, 256)"
ErrGammaLength == "ValueError: data and gamma must be of one length"

\* line 26: the length of KEY and of GEN
KeyLength == 256

\* x & 0xFF
LowByte(x) == x % 256

\* a ^ b for a, b >= 0
RECURSIVE BitXor(_, _)
BitXor(a, b) ==
    IF a = 0 THEN b
    ELSE IF b = 0 THEN a
    ELSE ((a + b) % 2) + 2 * BitXor(a \div 2, b \div 2)

\* gen[i], gen[j] = gen[j], gen[i]
swap(gen, i, j) == [gen EXCEPT ![i] = gen[j], ![j] = gen[i]]

\* line 61: bytes(a ^ b for a, b in zip(data, gamma))
xor_bytes(data, gamma) == [x \in 1 .. Len(data) |-> BitXor(data[x], gamma[x])]

\* the greatest length of a message
MaxStream == 2
\* the bytes of the messages
StreamBytes == {0, 72, 255}
\* a key is a list indexed from 0: the identity, a permutation, zeros, a list
\* with its last number above a byte, a list of numbers above a byte, and a
\* list that is one number short
StreamKeys ==
    {[x \in 0 .. (KeyLength - 1) |-> x],
     [x \in 0 .. (KeyLength - 1) |-> (5 * x + 3) % KeyLength],
     [x \in 0 .. (KeyLength - 1) |-> 0],
     [x \in 0 .. (KeyLength - 1) |-> IF x = KeyLength - 1 THEN KeyLength ELSE x],
     [x \in 0 .. (KeyLength - 1) |-> KeyLength + 44],
     [x \in 0 .. (KeyLength - 2) |-> x]}

StreamArgs ==
    {[message |-> message, key |-> key] :
        message \in UNION {[1 .. len -> StreamBytes] : len \in 0 .. MaxStream},
        key \in StreamKeys}

\* the caller's key list, the locals of the function that runs (call names
\* the function the script called, data its first argument) and the
\* ciphertext the script holds
NoFrameStream ==
    [key |-> <<>>, call |-> "none", data |-> <<>>, gen |-> <<>>, i |-> 0, j |-> 0,
     out |-> <<>>, cipher |-> <<>>]

StreamInit ==
    /\ op = "stream_round_trip"
    /\ arg \in StreamArgs
    /\ pc = "start"
    /\ stack = <<>>
    /\ kp = NoFrameKp /\ gp = NoFrameGp /\ pp = NoFramePp /\ cc = NoFrameCc
    /\ sc = [NoFrameStream EXCEPT !.key = arg.key]
    /\ result = [none |-> "none"]
    /\ err = NoError

\* line 99: cipher_bytes = encrypt_bytes(msg_bytes, key)
call_encrypt_bytes ==
    /\ op = "stream_round_trip" /\ pc = "start"
    /\ sc' = [sc EXCEPT !.call = "encrypt_bytes", !.data = arg.message]
    /\ pc' = "ksa_enter"
    /\ UNCHANGED <<op, arg, stack, kp, gp, pp, cc, result, err>>

\* lines 26-29: the length check and gen = key.copy(), a list of its own
ksa_initialize_gen_enter ==
    /\ op = "stream_round_trip" /\ pc = "ksa_enter"
    /\ IF Cardinality(DOMAIN sc.key) # KeyLength
       THEN Raise(ErrKeyLength) /\ sc' = sc
       ELSE /\ sc' = [sc EXCEPT !.gen = sc.key, !.i = 0, !.j = 0]
            /\ pc' = "ksa_loop"
            /\ UNCHANGED <<stack, result, err>>
    /\ UNCHANGED <<op, arg, kp, gp, pp, cc>>

\* lines 30-32: one turn of the loop; key is the caller's list
ksa_initialize_gen_step ==
    /\ op = "stream_round_trip" /\ pc = "ksa_loop"
    /\ sc.i < KeyLength
    /\ \E j \in {LowByte(sc.j + sc.gen[sc.i] + sc.key[sc.i])} :
          sc' = [sc EXCEPT !.j = j, !.gen = swap(sc.gen, sc.i, j), !.i = sc.i + 1]
    /\ UNCHANGED <<op, pc, arg, stack, kp, gp, pp, cc, result, err>>

\* line 33 and lines 43-46: ksa_initialize_gen returns gen, and
\* prga_generate_gamma starts on a copy of it
prga_generate_gamma_enter ==
    /\ op = "stream_round_trip" /\ pc = "ksa_loop"
    /\ sc.i = KeyLength
    /\ sc' = [sc EXCEPT !.i = 0, !.j = 0, !.out = <<>>]
    /\ pc' = "prga_loop"
    /\ UNCHANGED <<op, arg, stack, kp, gp, pp, cc, result, err>>

\* lines 47-52: one turn of the loop; bytearray.append takes a byte only
prga_generate_gamma_step ==
    /\ op = "stream_round_trip" /\ pc = "prga_loop"
    /\ Len(sc.out) < Len(sc.data)
    /\ \E i \in {LowByte(sc.i + 1)} :
       \E j \in {LowByte(sc.j + sc.gen[i])} :
       \E gen \in {swap(sc.gen, i, j)} :
       \E t \in {LowByte(gen[i] + gen[j])} :
          IF gen[t] \notin 0 .. 255
          THEN Raise(ErrByte) /\ sc' = [sc EXCEPT !.i = i, !.j = j, !.gen = gen]
          ELSE /\ sc' = [sc EXCEPT !.i = i, !.j = j, !.gen = gen,
                                   !.out = Append(@, gen[t])]
               /\ UNCHANGED <<pc, stack, result, err>>
    /\ UNCHANGED <<op, arg, kp, gp, pp, cc>>

\* lines 53 and 70: encrypt_bytes returns xor_bytes(message, gamma); line 100:
\* recovered_bytes = decrypt_bytes(cipher_bytes, key), which calls
\* encrypt_bytes(cipher, key)
encrypt_bytes_return ==
    /\ op = "stream_round_trip" /\ pc = "prga_loop"
    /\ Len(sc.out) = Len(sc.data)
    /\ sc.call = "encrypt_bytes"
    /\ IF Len(sc.data) # Len(sc.out)
       THEN Raise(ErrGammaLength) /\ sc' = sc
       ELSE /\ sc' = [sc EXCEPT !.cipher = xor_bytes(sc.data, sc.out),
                                !.call = "decrypt_bytes",
                                !.data = xor_bytes(sc.data, sc.out)]
            /\ pc' = "ksa_enter"
            /\ UNCHANGED <<stack, result, err>>
    /\ UNCHANGED <<op, arg, kp, gp, pp, cc>>

\* lines 53, 70 and 76: decrypt_bytes returns what encrypt_bytes returns
decrypt_bytes_return ==
    /\ op = "stream_round_trip" /\ pc = "prga_loop"
    /\ Len(sc.out) = Len(sc.data)
    /\ sc.call = "decrypt_bytes"
    /\ IF Len(sc.data) # Len(sc.out)
       THEN Raise(ErrGammaLength)
       ELSE Return(xor_bytes(sc.data, sc.out))
    /\ UNCHANGED <<op, arg, kp, gp, pp, cc, sc>>

StreamNext ==
    \/ call_encrypt_bytes
    \/ ksa_initialize_gen_enter
    \/ ksa_initialize_gen_step
    \/ prga_generate_gamma_enter
    \/ prga_generate_gamma_step
    \/ encrypt_bytes_return
    \/ decrypt_bytes_return

StreamSpec == StreamInit /\ [][StreamNext]_vars

\* C22: for every message of bytes and every key of length 256, the two calls
\* return, decrypt_bytes(encrypt_bytes(message, key), key) is the message, the
\* ciphertext is as long as the message, and the caller's key list is as it
\* was.
C22_stream_involution ==
    (/\ op = "stream_round_trip" /\ pc = "done"
     /\ Cardinality(DOMAIN arg.key) = KeyLength) =>
        /\ err = NoError
        /\ ret = arg.message
        /\ Len(sc.cipher) = Len(arg.message)
        /\ sc.key = arg.key

(***************************************************************************)
(* block_cipher.py: two characters as 32 bits go through a P-block, a      *)
(* battery of eight S-blocks and the P-block again                         *)
(***************************************************************************)
ErrBits32 == "ValueError: 32-bit string expected"
ErrNibble == "ValueError: number 0..15 expected"
ErrInvIndex == "IndexError: list assignment index out of range"

\* lines 8-9: format(ord(ch), '016b'): at least 16 binary digits
char_to_16bit(ch) == int_to_bits(ch, IF bit_length(ch) > 16 THEN bit_length(ch) ELSE 16)

\* lines 16-17: s is padded with '\x00' to two characters or cut to two
string_to_bits_two_chars(s) ==
    CHOOSE y \in {char_to_16bit(padded[1]) \o char_to_16bit(padded[2]) :
                  padded \in {SubSeq(s \o <<0, 0>>, 1, 2)}} : TRUE

\* lines 23-25
bits32_to_two_chars(bits32) ==
    <<bits_to_int(SubSeq(bits32, 1, 16)), bits_to_int(SubSeq(bits32, 17, Len(bits32)))>>

\* line 64: bit i is the bit p_perm[i] of bits32, the indices from 0
p_block_encrypt(bits32, p_perm) == [x \in 1 .. 32 |-> bits32[p_perm[x - 1] + 1]]

\* the indices i of the list perm that write inv[v]: a negative index
\* counts from the end of inv
writers(perm, v) ==
    {i \in DOMAIN perm : perm[i] = v \/ perm[i] = v - Cardinality(DOMAIN perm)}

\* lines 72-74 and 105-107: inv = [0] * len(perm), then inv[src] = i in the
\* order of i, for a list perm whose numbers are indices of inv
inverse(perm) ==
    [v \in DOMAIN perm |->
        IF writers(perm, v) = {} THEN 0
        ELSE CHOOSE i \in writers(perm, v) : \A i2 \in writers(perm, v) : i2 <= i]

\* line 75
p_block_decrypt(bits32, p_perm) ==
    CHOOSE y \in {[x \in 1 .. 32 |-> bits32[inv[x - 1] + 1]] : inv \in {inverse(p_perm)}} :
        TRUE

bin4_to_dec(s) == bits_to_int(s)

\* line 89: format(x, '04b') for 0 <= x <= 15
dec_to_bin4(x) == int_to_bits(x, 4)

\* lines 96-97: the number that dec_to_bin4 gets
s_block_encrypt(nibble4, s_perm) == s_perm[bin4_to_dec(nibble4)]

\* lines 104-108
s_block_decrypt(nibble4, s_perm) == inverse(s_perm)[bin4_to_dec(nibble4)]

\* lines 117 and 127: bits32[i*4:(i+1)*4] for i in range(8)
parts(bits32) == [i \in 0 .. 7 |-> SubSeq(bits32, 4 * i + 1, 4 * i + 4)]

\* lines 118-119: raised is the error of dec_to_bin4 (lines 87-88)
s_battery_encrypt(bits32, s_perm) ==
    CHOOSE y \in {IF \E i \in DOMAIN out : out[i] \notin 0 .. 15
                  THEN [raised |-> ErrNibble, value |-> <<>>]
                  ELSE [raised |-> NoError,
                        value |-> [x \in 1 .. 32 |->
                                     dec_to_bin4(out[(x - 1) \div 4])[((x - 1) % 4) + 1]]] :
                  out \in {[i \in 0 .. 7 |-> s_block_encrypt(parts(bits32)[i], s_perm)]}} :
        TRUE

\* lines 128-129: raised is the error of inv[val] = i (line 107) for a number
\* of s_perm that is no index of inv
s_battery_decrypt(bits32, s_perm) ==
    IF \E i \in DOMAIN s_perm : s_perm[i] \notin -16 .. 15
    THEN [raised |-> ErrInvIndex, value |-> <<>>]
    ELSE CHOOSE y \in
            {[raised |-> NoError,
              value |-> [x \in 1 .. 32 |->
                           dec_to_bin4(out[(x - 1) \div 4])[((x - 1) % 4) + 1]]] :
             out \in {[i \in 0 .. 7 |-> s_block_decrypt(parts(bits32)[i], s_perm)]}} :
            TRUE

\* the greatest length of plain2
MaxPlain == 3
\* the characters of plain2: '\x00', 'A', the Cyrillic 'И', the last 16-bit
\* character and the first character of 17 bits
BlockChars == {0, 65, 1048, 65535, 65536}
\* the P-blocks: three permutations of 0 .. 31 and a list that is none
PPerms ==
    <<[i \in 0 .. 31 |-> i],
      [i \in 0 .. 31 |-> 31 - i],
      [i \in 0 .. 31 |-> (5 * i + 3) % 32],
      [i \in 0 .. 31 |-> i \div 2]>>
\* the S-blocks: three permutations of 0 .. 15 and a list that is none
SPerms ==
    <<[v \in 0 .. 15 |-> v],
      [v \in 0 .. 15 |-> 15 - v],
      [v \in 0 .. 15 |-> (7 * v + 5) % 16],
      [v \in 0 .. 15 |-> v + 1]>>

BlockArgs ==
    {[plain2 |-> plain2, p_perms |-> PPerms, s_perms |-> SPerms,
      p_index |-> p_index, s_index |-> s_index] :
        plain2 \in UNION {[1 .. len -> BlockChars] : len \in 0 .. MaxPlain},
        p_index \in 0 .. (Len(PPerms) - 1),
        s_index \in 0 .. (Len(SPerms) - 1)}

\* cipher and enc_steps of the calling script
NoFrameBlock == [cipher |-> <<>>, enc_steps |-> <<>>]

BlockInit ==
    /\ op = "block_round_trip"
    /\ arg \in BlockArgs
    /\ pc = "start"
    /\ stack = <<>>
    /\ kp = NoFrameKp /\ gp = NoFrameGp /\ pp = NoFramePp /\ cc = NoFrameCc
    /\ sc = NoFrameBlock
    /\ result = [none |-> "none"]
    /\ err = NoError

\* line 188: cipher, enc_steps = encrypt_two_chars(plain, p_perms, s_perms,
\* p_idx, s_idx), lines 142-154
call_encrypt_two_chars ==
    /\ op = "block_round_trip" /\ pc = "start"
    /\ \E bits \in {string_to_bits_two_chars(arg.plain2)} :
       \E p_perm \in {arg.p_perms[arg.p_index + 1]} :
       \E s_perm \in {arg.s_perms[arg.s_index + 1]} :
          IF Len(bits) # 32
          THEN Raise(ErrBits32) /\ sc' = sc
          ELSE \E after_p1 \in {p_block_encrypt(bits, p_perm)} :
               \E after_s \in {s_battery_encrypt(after_p1, s_perm)} :
                  IF after_s.raised # NoError
                  THEN Raise(after_s.raised) /\ sc' = sc
                  ELSE \E after_p2 \in {p_block_encrypt(after_s.value, p_perm)} :
                          /\ sc' = [cipher |-> bits32_to_two_chars(after_p2),
                                    enc_steps |-> [bits_plain |-> bits,
                                                   after_p1 |-> after_p1,
                                                   after_s |-> after_s.value,
                                                   after_p2 |-> after_p2]]
                          /\ pc' = "encrypted"
                          /\ UNCHANGED <<stack, result, err>>
    /\ UNCHANGED <<op, arg, kp, gp, pp, cc>>

\* line 195: recovered, dec_steps = decrypt_two_chars(cipher, p_perms,
\* s_perms, p_idx, s_idx), lines 165-177
call_decrypt_two_chars ==
    /\ op = "block_round_trip" /\ pc = "encrypted"
    /\ \E bits \in {string_to_bits_two_chars(sc.cipher)} :
       \E p_perm \in {arg.p_perms[arg.p_index + 1]} :
       \E s_perm \in {arg.s_perms[arg.s_index + 1]} :
          IF Len(bits) # 32
          THEN Raise(ErrBits32)
          ELSE \E after_p1 \in {p_block_decrypt(bits, p_perm)} :
               \E after_s \in {s_battery_decrypt(after_p1, s_perm)} :
                  IF after_s.raised # NoError
                  THEN Raise(after_s.raised)
                  ELSE \E after_p2 \in {p_block_decrypt(after_s.value, p_perm)} :
                          Return(<<bits32_to_two_chars(after_p2),
                                   [bits_cipher |-> bits,
                                    after_p1_decrypt |-> after_p1,
                                    after_s_decrypt |-> after_s.value,
                                    after_p2_decrypt |-> after_p2]>>)
    /\ UNCHANGED <<op, arg, kp, gp, pp, cc, sc>>

BlockNext ==
    \/ call_encrypt_two_chars
    \/ call_decrypt_two_chars

BlockSpec == BlockInit /\ [][BlockNext]_vars

\* a list of the numbers 0 .. n - 1, each once
IsPermutation(perm, n) ==
    /\ DOMAIN perm = 0 .. (n - 1)
    /\ {perm[i] : i \in DOMAIN perm} = 0 .. (n - 1)

\* C23: for plain2 of one or two 16-bit characters, a permutation of 0 .. 31
\* as P-block and a permutation of 0 .. 15 as S-block, decrypt_two_chars of
\* the output of encrypt_two_chars with the same indices returns plain2, and
\* after_p1_decrypt = after_s, after_s_decrypt = after_p1 and
\* after_p2_decrypt = bits_plain.
C23_network_round_trip ==
    (/\ op = "block_round_trip" /\ pc = "done"
     /\ Len(arg.plain2) \in {1, 2}
     /\ \A x \in DOMAIN arg.plain2 : arg.plain2[x] < 65536
     /\ IsPermutation(arg.p_perms[arg.p_index + 1], 32)
     /\ IsPermutation(arg.s_perms[arg.s_index + 1], 16)) =>
        /\ err = NoError
        /\ ret[1] = arg.plain2
        /\ ret[2].after_p1_decrypt = sc.enc_steps.after_s
        /\ ret[2].after_s_decrypt = sc.enc_steps.after_p1
        /\ ret[2].after_p2_decrypt = sc.enc_steps.bits_plain
====
